---- MODULE Spec2Model ----
(***************************************************************************)
(* Condition evaluation of loot-condition-interpreter: the evaluators of   *)
(* src/function/eval.rs (overlay enumeration, FileRegex, Many, Checksum    *)
(* and the other predicate kinds), the dispatcher Function::eval with its  *)
(* two caches (State.crc_cache, State.condition_cache) and their poison    *)
(* recovery.                                                               *)
(*                                                                         *)
(* Strings are sequences of character codes (ASCII), so that lowercasing   *)
(* and suffix tests are computed. A Result<T, Error> is the record         *)
(* Ok(v) or Err(e). The filesystem, the regular-expression matcher, the    *)
(* CRC-32 hasher and the plugin-header reader are collaborators of the     *)
(* code: the filesystem is state that the environment changes, a regex is  *)
(* the set of strings it matches, the readers and the hasher are tables    *)
(* over the file contents of the model.                                    *)
(*                                                                         *)
(* A value that a definition uses several times is bound once, as the      *)
(* member of a singleton set: \E r \in {e} : ... in an action, and          *)
(* CHOOSE v \in {... r ... : r \in {e}} : TRUE in an operator.              *)
(***************************************************************************)
EXTENDS Integers, Sequences, FiniteSets, TLC

VARIABLES
    game_type,              \* State.game_type
    additional_data_paths,  \* State.additional_data_paths
    active_plugins,         \* State.active_plugins (lowercased)
    plugin_versions,        \* State.plugin_versions: lowercased file name -> version
    crc_cache,              \* State.crc_cache: the map inside the RwLock
    crc_poisoned,           \* State.crc_cache: the poison flag of the RwLock
    condition_cache,        \* State.condition_cache: the map inside the RwLock
    condition_poisoned,     \* State.condition_cache: the poison flag
    files,                  \* filesystem: absolute file path -> node
    dirs,                   \* filesystem: absolute directory path -> what read_dir gives
    last,                   \* the latest call: its function, its result, what it did
    returned,               \* history: slow function -> Ok value returned since the
                            \* condition cache's lock was last poisoned
    ever_returned,          \* history: slow function -> first Ok value ever returned
    calls,                  \* the number of calls made so far
    threads,                \* thread -> where it is in Function::eval, with the
                            \* function, the guards it holds and its local values
    process                 \* the process: its working directory, against which a
                            \* relative path is taken, and the operating system

vars == <<game_type, additional_data_paths, active_plugins, plugin_versions, crc_cache,
          crc_poisoned, condition_cache, condition_poisoned, files, dirs, last, returned,
          ever_returned, calls, threads, process>>

context == <<game_type, additional_data_paths, active_plugins, plugin_versions>>
caches == <<crc_cache, crc_poisoned, condition_cache, condition_poisoned>>
history == <<returned, ever_returned>>

-----------------------------------------------------------------------------
(* Bounds of the model *)

\* The longest version string that is parsed or compared.
MaxVersionLen == 3

\* The longest directory listing (entries one read_dir yields).
MaxEntries == 2

\* The most calls of Function::eval in one session.
MaxCalls == 2

\* The threads that call Function::eval on the shared context.
MaxThreads == 2

-----------------------------------------------------------------------------
(* Values *)

Ok(v) == [ok |-> TRUE, val |-> v]
Err(e) == [ok |-> FALSE, err |-> e]
IoError(path) == [type |-> "IoError", path |-> path]

None == [some |-> FALSE]
Some(v) == [some |-> TRUE, val |-> v]

\* The working directory of the process, which is none of the base paths,
\* and the operating systems the crate is built for.
WorkingDir == "W"
OperatingSystems == {"unix", "windows"}
TestProcess == [current_dir |-> WorkingDir, os |-> "unix"]

\* A thread: pc is the statement of Function::eval or evaluate_checksum it
\* is about to execute, guards the lock guards it holds, result and
\* calculated_crc its local variables of these names.
Threads == 1..MaxThreads
Idle == [pc |-> "idle", fn |-> [kind |-> "None"], guards |-> {}, result |-> Ok(FALSE),
         calculated_crc |-> 0]
NoThreads == [t \in Threads |-> Idle]

GameTypes == {"Morrowind", "OpenMW", "Oblivion", "Skyrim", "SkyrimSE", "SkyrimVR",
              "Fallout3", "FalloutNV", "Fallout4", "Fallout4VR", "Starfield"}

\* "a.esp", "A.ESP", "a.esp.ghost", "b.esp", "d" and the suffixes, as character codes.
NameAEsp == <<97, 46, 101, 115, 112>>
NameAEspUpper == <<65, 46, 69, 83, 80>>
NameBEsp == <<98, 46, 101, 115, 112>>
GHOST_EXTENSION == <<46, 103, 104, 111, 115, 116>>
NameAEspGhost == NameAEsp \o GHOST_EXTENSION
DirData == <<100>>
\* "loot.dll"
\* "unreadable"
NameUnreadable == <<117, 110, 114, 101, 97, 100, 97, 98, 108, 101>>
NameLootDll == <<108, 111, 111, 116, 46, 100, 108, 108>>
PluginExtensions == {<<46, 101, 115, 112>>, <<46, 101, 115, 109>>}

\* State.data_path and the directories State.additional_data_paths draws from.
data_path == "P"
AdditionalPaths == <<"A", "B">>

\* PathBuf::join
Join(base, rel) == <<base, rel>>

Range(s) == {s[i] : i \in DOMAIN s}

RECURSIVE Reverse(_)
Reverse(s) == IF s = <<>> THEN <<>> ELSE Append(Reverse(Tail(s)), Head(s))

\* str::to_lowercase, on ASCII
to_lowercase(s) == [i \in DOMAIN s |-> IF s[i] >= 65 /\ s[i] <= 90 THEN s[i] + 32 ELSE s[i]]

EndsWith(s, suffix) ==
    /\ Len(s) >= Len(suffix)
    /\ SubSeq(s, Len(s) - Len(suffix) + 1, Len(s)) = suffix

-----------------------------------------------------------------------------
(* Path rules (function/path.rs) *)

has_plugin_file_extension(game, path) ==
    \E ext \in PluginExtensions : EndsWith(to_lowercase(path), ext)

\* The ghost convention is off for OpenMW.
normalise_file_name(game, name) ==
    IF /\ game # "OpenMW"
       /\ EndsWith(to_lowercase(name), GHOST_EXTENSION)
       /\ has_plugin_file_extension(game, SubSeq(name, 1, Len(name) - Len(GHOST_EXTENSION)))
    THEN SubSeq(name, 1, Len(name) - Len(GHOST_EXTENSION))
    ELSE name

-----------------------------------------------------------------------------
(* Version (version.rs) *)

\* enum Ordering
Less == "Less"
Equal == "Equal"
Greater == "Greater"

\* Ord for integers (character codes)
cmp(x, y) == IF x < y THEN Less ELSE IF x > y THEN Greater ELSE Equal

\* The lexicographic comparison the standard library gives strings: the
\* first differing position decides, then the lengths.
str_partial_cmp(a, b) ==
    LET n == IF Len(a) < Len(b) THEN Len(a) ELSE Len(b)
        differ == {i \in 1..n : a[i] # b[i]}
    IN  IF differ = {} THEN cmp(Len(a), Len(b))
        ELSE LET i == CHOOSE d \in differ : \A e \in differ : d <= e
             IN  cmp(a[i], b[i])

\* enum Identifier. The value of a Numeric is kept as its decimal digits
\* without leading zeros, so that every u32 has a representation.
Numeric(digits) == [kind |-> "Numeric", value |-> digits]
NonNumeric(string) == [kind |-> "NonNumeric", value |-> string]

Zero == <<48>>
U32_MAX == <<52, 50, 57, 52, 57, 54, 55, 50, 57, 53>>

is_digit(c) == c >= 48 /\ c <= 57

\* The digits of a decimal numeral without its leading zeros.
strip_leading_zeros(digits) ==
    LET significant == {i \in DOMAIN digits : digits[i] # 48}
    IN  IF significant = {} THEN Zero
        ELSE SubSeq(digits, CHOOSE i \in significant : \A j \in significant : i <= j,
                    Len(digits))

\* Ord for u32, on the digits
cmp_u32(d1, d2) ==
    IF Len(d1) # Len(d2) THEN cmp(Len(d1), Len(d2)) ELSE str_partial_cmp(d1, d2)

\* u32::from_str_radix(string, 10): an optional '+', then one or more
\* digits, of a value that fits 32 bits.
from_str_radix(string) ==
    LET digits == IF string # <<>> /\ string[1] = 43 THEN Tail(string) ELSE string
    IN  IF /\ digits # <<>>
           /\ \A i \in DOMAIN digits : is_digit(digits[i])
           /\ cmp_u32(strip_leading_zeros(digits), U32_MAX) # Greater
        THEN Ok(strip_leading_zeros(digits))
        ELSE Err("ParseIntError")

\* impl From<&str> for Identifier
Identifier_from(string) ==
    LET parsed == from_str_radix(string)
    IN  IF parsed.ok THEN Numeric(parsed.val) ELSE NonNumeric(to_lowercase(string))

\* A comparison that puts the text identifiers first.
Identifier_partial_cmp_text_first(a, b) ==
    IF a.kind # b.kind THEN (IF a.kind = "Numeric" THEN Greater ELSE Less)
    ELSE IF a.kind = "Numeric" THEN cmp_u32(a.value, b.value)
    ELSE str_partial_cmp(a.value, b.value)

\* #[derive(PartialOrd)] for Identifier: the variants in order of
\* declaration, then their fields.
Identifier_partial_cmp(a, b) ==
    IF a.kind # b.kind THEN (IF a.kind = "Numeric" THEN Less ELSE Greater)
    ELSE IF a.kind = "Numeric" THEN cmp_u32(a.value, b.value)
    ELSE str_partial_cmp(a.value, b.value)

is_separator(c) == c = 45 \/ c = 32 \/ c = 58 \/ c = 95

is_pre_release_separator(c) == c = 46 \/ is_separator(c)

\* A pattern is the set of the characters it accepts: a char, or the
\* characters a function accepts.
Chars == 0..127
Pattern_char(c) == {c}
Pattern_is_separator == {c \in Chars : is_separator(c)}
Pattern_is_pre_release_separator == {c \in Chars : is_pre_release_separator(c)}

\* str::find: the first position of a character that the pattern accepts.
find(string, pattern) ==
    LET hits == {i \in DOMAIN string : string[i] \in pattern}
    IN  IF hits = {} THEN None ELSE Some(CHOOSE i \in hits : \A j \in hits : i <= j)

\* str::split: the pieces between the characters that the pattern accepts,
\* empty pieces included.
split(string, pattern) ==
    LET hits == {i \in DOMAIN string : string[i] \in pattern}
        cut(k) == IF k = 0 THEN 0
                  ELSE IF k > Cardinality(hits) THEN Len(string) + 1
                  ELSE CHOOSE i \in hits : Cardinality({j \in hits : j < i}) = k - 1
    IN  [k \in 1..(Cardinality(hits) + 1) |-> SubSeq(string, cut(k - 1) + 1, cut(k) - 1)]

\* str::split_terminator: as split, without a last piece that is empty.
split_terminator(string, pattern) ==
    LET pieces == split(string, pattern)
    IN  IF pieces[Len(pieces)] = <<>> THEN SubSeq(pieces, 1, Len(pieces) - 1) ELSE pieces

trim_metadata(version) ==
    IF version = <<>> THEN Zero
    ELSE LET i == find(version, Pattern_char(43))
         IN  IF i.some THEN SubSeq(version, 1, i.val - 1) ELSE version

\* impl From<&str> for Version. Positions count from 1, so the guard
\* i + 1 < trimmed.len() reads i.val < Len(trimmed).
Version_from(string) ==
    LET trimmed == trim_metadata(string)
        i == find(trimmed, Pattern_is_separator)
        parts == IF i.some /\ i.val < Len(trimmed)
                 THEN [release |-> SubSeq(trimmed, 1, i.val - 1),
                       pre_release |-> SubSeq(trimmed, i.val + 1, Len(trimmed))]
                 ELSE [release |-> trimmed, pre_release |-> <<>>]
        release_pieces == split(parts.release, Pattern_char(46))
        pre_release_pieces == split_terminator(parts.pre_release, Pattern_is_pre_release_separator)
    IN  [release_ids |-> [k \in DOMAIN release_pieces |-> Identifier_from(release_pieces[k])],
         pre_release_ids |->
             [k \in DOMAIN pre_release_pieces |-> Identifier_from(pre_release_pieces[k])]]

\* No padding: the sequences as they are.
pad_release_ids_as_given(ids1, ids2) == <<ids1, ids2>>

\* Vec::resize(len, Identifier::Numeric(0)) on the shorter of the two
pad_release_ids(ids1, ids2) ==
    LET len == IF Len(ids1) < Len(ids2) THEN Len(ids2) ELSE Len(ids1)
        resize(ids) == [k \in 1..len |-> IF k <= Len(ids) THEN ids[k] ELSE Numeric(Zero)]
    IN  <<resize(ids1), resize(ids2)>>

\* A comparison that looks at the common length of the sequences only.
slice_partial_cmp_common_length(a, b) ==
    LET n == IF Len(a) < Len(b) THEN Len(a) ELSE Len(b)
        differ == {i \in 1..n : Identifier_partial_cmp(a[i], b[i]) # Equal}
    IN  IF differ = {} THEN Equal
        ELSE LET i == CHOOSE d \in differ : \A e \in differ : d <= e
             IN  Identifier_partial_cmp(a[i], b[i])

\* The lexicographic comparison the standard library gives slices, here of
\* identifiers.
slice_partial_cmp(a, b) ==
    LET n == IF Len(a) < Len(b) THEN Len(a) ELSE Len(b)
        differ == {i \in 1..n : Identifier_partial_cmp(a[i], b[i]) # Equal}
    IN  IF differ = {} THEN cmp(Len(a), Len(b))
        ELSE LET i == CHOOSE d \in differ : \A e \in differ : d <= e
             IN  Identifier_partial_cmp(a[i], b[i])

\* impl PartialOrd for Version. The derived comparison of identifiers is
\* never None, so the result is always Some and is given as the Ordering.
Version_partial_cmp(self, other) ==
    CHOOSE ordering \in
        {IF r = Equal
         THEN slice_partial_cmp(self.pre_release_ids, other.pre_release_ids)
         ELSE r :
         r \in {slice_partial_cmp(padded[1], padded[2]) :
                    padded \in {pad_release_ids(self.release_ids, other.release_ids)}}} : TRUE

\* An equality of the sequences as parsed.
Version_eq_as_parsed(self, other) ==
    self.release_ids = other.release_ids /\ self.pre_release_ids = other.pre_release_ids

\* impl PartialEq for Version
Version_eq(self, other) ==
    LET padded == pad_release_ids(self.release_ids, other.release_ids)
    IN  padded[1] = padded[2] /\ self.pre_release_ids = other.pre_release_ids

\* enum ComparisonOperator
ComparisonOperators ==
    {"Equal", "NotEqual", "LessThan", "GreaterThan", "LessThanOrEqual", "GreaterThanOrEqual"}

\* c.eq is what == gives for the two versions, c.ordering what partial_cmp
\* gives: != is the negation of ==, and <, >, <=, >= are read off the ordering.
compare_versions(actual_version, comparator, given_version) ==
    CHOOSE result \in
        {CASE comparator = "Equal" -> c.eq
           [] comparator = "NotEqual" -> ~c.eq
           [] comparator = "LessThan" -> c.ordering = Less
           [] comparator = "GreaterThan" -> c.ordering = Greater
           [] comparator = "LessThanOrEqual" -> c.ordering \in {Less, Equal}
           [] comparator = "GreaterThanOrEqual" -> c.ordering \in {Greater, Equal} :
         c \in {[eq |-> Version_eq(actual_version, given),
                 ordering |-> Version_partial_cmp(actual_version, given)] :
                    given \in {Version_from(given_version)}}} : TRUE

-----------------------------------------------------------------------------
(* Directory listings *)

\* An item of a directory iterator: Ok(DirEntry) or Err(io::Error).
DirEntry(name) == [ok |-> TRUE, file_name |-> name]
EntryError == [ok |-> FALSE, file_name |-> <<>>]

RawNames == {NameAEsp, NameAEspGhost}
Items == {DirEntry(n) : n \in RawNames} \cup {EntryError}

\* What read_dir gives: an error, or an iterator over the items. A directory
\* holds a name once.
NoRepeat(s) == \A i, j \in DOMAIN s : i # j => s[i] # s[j]
ItemSeqs(n) == UNION {{s \in [1..k -> Items] : NoRepeat(s)} : k \in 0..n}
ReadDirOk(items) == [ok |-> TRUE, error |-> "None", items |-> items]
ReadDirErr(e) == [ok |-> FALSE, error |-> e, items |-> <<>>]
Listings(n) ==
    {ReadDirOk(s) : s \in ItemSeqs(n)} \cup {ReadDirErr("NotFound"), ReadDirErr("PermissionDenied")}

\* std::fs::read_dir
read_dir(path) == dirs[path]

\* Regex::is_match: a regex is the set of the strings it matches.
Regexes == SUBSET {normalise_file_name("Oblivion", n) : n \in RawNames}
regex_is_match(regex, s) == s \in regex

-----------------------------------------------------------------------------
(* Overlay enumeration *)

\* A match on the entry's name as listed, without normalising it.
is_match_as_listed(game, regex, file_name) ==
    regex_is_match(regex, file_name)

is_match(game, regex, file_name) ==
    regex_is_match(regex, normalise_file_name(game, file_name))

\* Regex::captures and Captures::get(1): a regex with one capturing group is
\* the table of the strings it matches, each with the text of the group, or
\* None where the group took no part in the match.
regex_captures(regex, s) == IF s \in DOMAIN regex THEN Some(regex[s]) ELSE None
get_1(c) == IF c.some THEN c.val ELSE None

\* The closures handed to evaluate_dir_entries, with the state they capture:
\* ret is what the closure returns, found_one what it leaves captured.
file_regex_evaluator(regex, found_one, entry) ==
    [ret |-> is_match(game_type, regex, entry.file_name), found_one |-> found_one]

\* A closure that returns true at the first match.
many_evaluator_first_match(regex, found_one, entry) ==
    [ret |-> is_match(game_type, regex, entry.file_name), found_one |-> found_one]

many_evaluator(regex, found_one, entry) ==
    IF is_match(game_type, regex, entry.file_name)
    THEN IF found_one
         THEN [ret |-> TRUE, found_one |-> found_one]
         ELSE [ret |-> FALSE, found_one |-> TRUE]
    ELSE [ret |-> FALSE, found_one |-> found_one]

\* A closure that takes a match without the group for a version that is
\* absent.
filename_version_evaluator_absent_policy(regex, version, comparator, found_one, entry) ==
    LET c == regex_captures(regex, normalise_file_name(game_type, entry.file_name))
        m == get_1(c)
    IN  [ret |-> IF m.some THEN compare_versions(Version_from(m.val), comparator, version)
                 ELSE c.some /\ comparator \in {"NotEqual", "LessThan", "LessThanOrEqual"},
         found_one |-> found_one]

filename_version_evaluator(regex, version, comparator, found_one, entry) ==
    LET m == get_1(regex_captures(regex, normalise_file_name(game_type, entry.file_name)))
    IN  [ret |-> m.some /\ compare_versions(Version_from(m.val), comparator, version),
         found_one |-> found_one]

evaluator(ev, found_one, entry) ==
    CASE ev.kind = "Many" -> many_evaluator(ev.regex, found_one, entry)
      [] ev.kind = "FileRegex" -> file_regex_evaluator(ev.regex, found_one, entry)
      [] ev.kind = "FilenameVersion" ->
             filename_version_evaluator(ev.regex, ev.version, ev.comparator, found_one, entry)

\* The running state of an enumeration: done once a return is taken; listed and
\* visited record the read_dir calls made and the entries handed to the closure.
ScanStart ==
    [done |-> FALSE, result |-> Ok(FALSE), listed |-> <<>>, visited |-> <<>>,
     found_one |-> FALSE]

\* A loop that passes over the entries that cannot be read.
RECURSIVE for_entry_skipping_errors(_, _, _, _, _)
for_entry_skipping_errors(items, k, parent_path, ev, st) ==
    IF k > Len(items) THEN st
    ELSE IF ~items[k].ok
    THEN for_entry_skipping_errors(items, k + 1, parent_path, ev, st)
    ELSE LET r == evaluator(ev, st.found_one, items[k])
             st2 == [st EXCEPT !.visited = Append(@, <<parent_path, items[k].file_name>>),
                               !.found_one = r.found_one]
         IN  IF r.ret
             THEN [st2 EXCEPT !.done = TRUE, !.result = Ok(TRUE)]
             ELSE for_entry_skipping_errors(items, k + 1, parent_path, ev, st2)

\* A loop that hands the rest of the directory to the closure after the
\* closure has returned true.
RECURSIVE for_entry_visiting_all(_, _, _, _, _)
for_entry_visiting_all(items, k, parent_path, ev, st) ==
    IF k > Len(items) THEN st
    ELSE IF ~items[k].ok
    THEN (IF st.done THEN st
          ELSE [st EXCEPT !.done = TRUE, !.result = Err(IoError(parent_path))])
    ELSE CHOOSE after \in
             {LET st2 == [st EXCEPT
                             !.visited = Append(@, <<parent_path, items[k].file_name>>),
                             !.found_one = r.found_one]
              IN  for_entry_visiting_all(
                      items, k + 1, parent_path, ev,
                      IF r.ret THEN [st2 EXCEPT !.done = TRUE, !.result = Ok(TRUE)] ELSE st2) :
              r \in {evaluator(ev, st.found_one, items[k])}} : TRUE

\* for entry in dir_iterator { ... }
RECURSIVE for_entry(_, _, _, _, _)
for_entry(items, k, parent_path, ev, st) ==
    IF k > Len(items) THEN st
    ELSE IF ~items[k].ok
    THEN [st EXCEPT !.done = TRUE, !.result = Err(IoError(parent_path))]
    ELSE CHOOSE after \in
             {LET st2 == [st EXCEPT
                             !.visited = Append(@, <<parent_path, items[k].file_name>>),
                             !.found_one = r.found_one]
              IN  IF r.ret
                  THEN [st2 EXCEPT !.done = TRUE, !.result = Ok(TRUE)]
                  ELSE for_entry(items, k + 1, parent_path, ev, st2) :
              r \in {evaluator(ev, st.found_one, items[k])}} : TRUE

\* An enumeration that goes on to the next base path when a directory cannot
\* be listed.
RECURSIVE for_base_path_skipping(_, _, _, _, _)
for_base_path_skipping(base_path_iter, i, parent_path, ev, st) ==
    IF i > Len(base_path_iter)
    THEN [st EXCEPT !.done = TRUE, !.result = Ok(FALSE)]
    ELSE LET joined == Join(base_path_iter[i], parent_path)
             st1 == [st EXCEPT !.listed = Append(@, joined)]
             dir_iterator == read_dir(joined)
         IN  IF ~dir_iterator.ok
             THEN for_base_path_skipping(base_path_iter, i + 1, parent_path, ev, st1)
             ELSE LET st2 == for_entry(dir_iterator.items, 1, joined, ev, st1)
                  IN  IF st2.done THEN st2
                      ELSE for_base_path_skipping(base_path_iter, i + 1, parent_path, ev, st2)

\* for base_path in base_path_iter { ... }
RECURSIVE for_base_path(_, _, _, _, _)
for_base_path(base_path_iter, i, parent_path, ev, st) ==
    IF i > Len(base_path_iter)
    THEN [st EXCEPT !.done = TRUE, !.result = Ok(FALSE)]
    ELSE LET joined == Join(base_path_iter[i], parent_path)
             st1 == [st EXCEPT !.listed = Append(@, joined)]
             dir_iterator == read_dir(joined)
         IN  IF ~dir_iterator.ok
             THEN [st1 EXCEPT !.done = TRUE, !.result = Ok(FALSE)]
             ELSE CHOOSE after \in
                      {IF st2.done THEN st2
                       ELSE for_base_path(base_path_iter, i + 1, parent_path, ev, st2) :
                       st2 \in {for_entry(dir_iterator.items, 1, joined, ev, st1)}} : TRUE

evaluate_dir_entries_from_base_paths(base_path_iter, parent_path, ev) ==
    for_base_path(base_path_iter, 1, parent_path, ev, ScanStart)

\* The configuration order for every game type.
evaluate_dir_entries_in_config_order(parent_path, ev) ==
    evaluate_dir_entries_from_base_paths(
        additional_data_paths \o <<data_path>>, parent_path, ev)

evaluate_dir_entries(parent_path, ev) ==
    IF game_type = "OpenMW"
    THEN evaluate_dir_entries_from_base_paths(
             Reverse(additional_data_paths) \o <<data_path>>, parent_path, ev)
    ELSE evaluate_dir_entries_from_base_paths(
             additional_data_paths \o <<data_path>>, parent_path, ev)

evaluate_file_regex(parent_path, regex) ==
    evaluate_dir_entries(parent_path, [kind |-> "FileRegex", regex |-> regex])

evaluate_many(parent_path, regex) ==
    evaluate_dir_entries(parent_path, [kind |-> "Many", regex |-> regex])

evaluate_filename_version(parent_path, regex, version, comparator) ==
    evaluate_dir_entries(parent_path,
                         [kind |-> "FilenameVersion", regex |-> regex, version |-> version,
                          comparator |-> comparator])

-----------------------------------------------------------------------------
(* Files *)

\* The contents a file of the model may hold, named after the test files.
\* The files the sessions copy into place (tests/testing-plugins/Oblivion/Data).
Contents == {"Blank.esm", "Blank.bsa"}

Missing == [kind |-> "missing", content |-> "", readable |-> FALSE]
Directory == [kind |-> "dir", content |-> "", readable |-> TRUE]
RegularFile(content, readable) == [kind |-> "file", content |-> content, readable |-> readable]

node(path) == IF path \in DOMAIN files THEN files[path] ELSE Missing

\* Path::exists, Path::is_file
exists(path) == node(path).kind # "missing"
is_file(path) == node(path).kind = "file"

\* Path::is_dir, and a path that is not absolute as the process sees it.
is_dir(path) == node(path).kind = "dir"
relative(path) == Join(process.current_dir, path)

\* std::fs::read_dir(path).is_ok() for a path among the files: a directory
\* that may be listed.
read_dir_is_ok(path) == node(path).kind = "dir" /\ node(path).readable

\* File::open(path).is_ok(): a file that may be read; a directory that may be
\* read where the system opens directories (open(2)), never where it does not
\* (CreateFileW without FILE_FLAG_BACKUP_SEMANTICS).
File_open_is_ok(path) ==
    CASE node(path).kind = "file" -> node(path).readable
      [] node(path).kind = "dir" -> process.os = "unix" /\ node(path).readable
      [] OTHER -> FALSE

\* File::open followed by the reads of the file: Ok or an io::Error.
file_read_ok(path) == node(path).kind = "file" /\ node(path).readable

\* The length std::fs::metadata reports.
content_len(content) ==
    CASE content = "Blank.esm" -> 55
      [] content = "Blank.bsa" -> 736
      [] OTHER -> 0
metadata(path) ==
    CASE node(path).kind = "file" -> Ok(content_len(node(path).content))
      [] node(path).kind = "dir" -> Ok(4096)
      [] OTHER -> Err(IoError(path))

\* crc32fast::Hasher over the whole file.
crc32(content) ==
    CASE content = "Blank.esm" -> 927869551    \* 0x374E2A6F
      [] content = "Blank.bsa" -> 581663193    \* 0x22AB79D9
      [] OTHER -> 0

\* function/path.rs: the additional data paths are searched before the data
\* path, and a plugin that is missing is looked for under its ghosted name.
ghosted(path) == Join(path[1], path[2] \o GHOST_EXTENSION)

RECURSIVE resolve_path_from(_, _, _)
resolve_path_from(base_paths, i, path) ==
    LET joined == Join(IF i > Len(base_paths) THEN data_path ELSE base_paths[i], path)
        ghosts == game_type # "OpenMW" /\ has_plugin_file_extension(game_type, path)
    IN  IF exists(joined) THEN joined
        ELSE IF ghosts /\ exists(ghosted(joined)) THEN ghosted(joined)
        ELSE IF i > Len(base_paths) THEN joined
        ELSE resolve_path_from(base_paths, i + 1, path)

resolve_path(path) == resolve_path_from(additional_data_paths, 1, path)

-----------------------------------------------------------------------------
(* The plugin-header reader (esplugin) and the executable reader *)

\* esplugin::Plugin::parse_file(header_only), is_master_file and description,
\* as a table over the contents.
plugin_header(content) ==
    CASE content = "Blank.esm" -> Some([is_master_file |-> TRUE, description |-> Some("v5.0")])
      [] OTHER -> None

parse_plugin(file_path) ==
    LET path == resolve_path(file_path)
    IN  IF file_read_ok(path) THEN plugin_header(node(path).content) ELSE None

\* Version::is_readable: the file is an executable with a version resource.
version_is_readable(path) == file_read_ok(path) /\ node(path).content = "loot.dll"

-----------------------------------------------------------------------------
(* The evaluators without a cache of their own *)

evaluate_file_path(file_path) == exists(resolve_path(file_path))

evaluate_file_size(path, size) ==
    LET m == metadata(resolve_path(path))
    IN  IF m.ok THEN Ok(m.val = size) ELSE Ok(FALSE)

\* path.is_dir() is asked of the path as the rule gives it.
evaluate_readable(path) ==
    IF is_dir(relative(path))
    THEN read_dir_is_ok(resolve_path(path))
    ELSE File_open_is_ok(resolve_path(path))

evaluate_is_executable(path) == version_is_readable(resolve_path(path))

evaluate_active_path(path) == to_lowercase(path) \in active_plugins

evaluate_active_regex(regex) == \E p \in active_plugins : regex_is_match(regex, p)

evaluate_is_master(file_path) ==
    IF game_type = "OpenMW" THEN FALSE
    ELSE LET plugin == parse_plugin(file_path)
         IN  plugin.some /\ plugin.val.is_master_file

\* Two distinct members match: the loop returns true at the second match.
evaluate_many_active(regex) ==
    Cardinality({p \in active_plugins : regex_is_match(regex, p)}) >= 2

evaluate_description_contains(file_path, regex) ==
    LET plugin == parse_plugin(file_path)
    IN  /\ plugin.some
        /\ plugin.val.description.some
        /\ regex_is_match(regex, plugin.val.description.val)

-----------------------------------------------------------------------------
(* The version of a file (version.rs, eval.rs) *)

PeParsingError(path) == [type |-> "PeParsingError", path |-> path]

\* The executables a version is read from: the library of the tests (file
\* version 0.18.2.0, product version "0.18.2"), an executable whose version
\* resource has no fixed record, one whose version resource has no product
\* version, one without a version resource; every other content is not an
\* executable.
ExecutableContents ==
    {"loot.dll", "no_fixed_info.dll", "no_product_version.dll", "no_version_info.dll"}

\* get_pe_version_info: the VersionInfo of the executable, or a FindError.
get_pe_version_info(content) ==
    CASE content = "loot.dll" ->
             Ok([fixed |-> Some(<<0, 18, 2, 0>>),
                 product_version |-> Some(<<48, 46, 49, 56, 46, 50>>)])
      [] content = "no_fixed_info.dll" ->
             Ok([fixed |-> None, product_version |-> Some(<<48, 46, 49, 56, 46, 50>>)])
      [] content = "no_product_version.dll" ->
             Ok([fixed |-> Some(<<0, 18, 2, 0>>), product_version |-> None])
      [] OTHER -> Err("FindError")

\* Display for the integers of the fixed record
RECURSIVE to_string(_)
to_string(n) == IF n < 10 THEN <<48 + n>> ELSE to_string(n \div 10) \o <<48 + (n % 10)>>

\* format!("{}.{}.{}.{}", Major, Minor, Patch, Build)
format(v) ==
    to_string(v[1]) \o <<46>> \o to_string(v[2]) \o <<46>> \o to_string(v[3])
        \o <<46>> \o to_string(v[4])

\* Version::read_file_version
read_file_version(file_path) ==
    IF ~file_read_ok(file_path) THEN Err(IoError(file_path))
    ELSE LET version_info == get_pe_version_info(node(file_path).content)
         IN  IF ~version_info.ok THEN Err(PeParsingError(file_path))
             ELSE IF version_info.val.fixed.some
             THEN Ok(Version_from(format(version_info.val.fixed.val)))
             ELSE Ok(Version_from(<<>>))

\* Version::read_product_version: the product version string of the version
\* resource, parsed; None when the resource holds no such string.
read_product_version(file_path) ==
    IF ~file_read_ok(file_path) THEN Err(IoError(file_path))
    ELSE LET version_info == get_pe_version_info(node(file_path).content)
         IN  IF ~version_info.ok THEN Err(PeParsingError(file_path))
             ELSE IF version_info.val.product_version.some
             THEN Ok(Some(Version_from(version_info.val.product_version.val)))
             ELSE Ok(None)

\* path.file_name(), lowercased; a path of the model is a base and a name.
lowercase_filename(path) == Some(to_lowercase(path[2]))

\* A version source that asks the reader before the override map.
get_version_reader_first(file_path) ==
    IF ~is_file(file_path) THEN [result |-> Ok(None), reader |-> FALSE]
    ELSE LET key == lowercase_filename(file_path)
             read == read_file_version(file_path)
         IN  IF read.ok THEN [result |-> Ok(Some(read.val)), reader |-> TRUE]
             ELSE IF key.some /\ key.val \in DOMAIN plugin_versions
             THEN [result |-> Ok(Some(Version_from(plugin_versions[key.val]))),
                   reader |-> TRUE]
             ELSE [result |-> IF has_plugin_file_extension(game_type, file_path[2])
                              THEN Ok(None) ELSE read,
                   reader |-> TRUE]

\* get_version looking the override up before asking whether the path is a
\* regular file.
get_version_override_first(file_path) ==
    LET key == lowercase_filename(file_path)
    IN  IF key.some /\ key.val \in DOMAIN plugin_versions
        THEN [result |-> Ok(Some(Version_from(plugin_versions[key.val]))), reader |-> FALSE]
        ELSE IF ~is_file(file_path) \/ has_plugin_file_extension(game_type, file_path[2])
        THEN [result |-> Ok(None), reader |-> FALSE]
        ELSE CHOOSE r \in {[result |-> IF read.ok THEN Ok(Some(read.val)) ELSE read,
                            reader |-> TRUE] : read \in {read_file_version(file_path)}} : TRUE

\* get_version: the Result<Option<Version>, Error>, and whether
\* Version::read_file_version was called (reader).
get_version(file_path) ==
    IF ~is_file(file_path) THEN [result |-> Ok(None), reader |-> FALSE]
    ELSE LET key == lowercase_filename(file_path)
         IN  IF key.some /\ key.val \in DOMAIN plugin_versions
             THEN [result |-> Ok(Some(Version_from(plugin_versions[key.val]))),
                   reader |-> FALSE]
             ELSE IF has_plugin_file_extension(game_type, file_path[2])
             THEN [result |-> Ok(None), reader |-> FALSE]
             ELSE CHOOSE r \in
                      {[result |-> IF read.ok THEN Ok(Some(read.val)) ELSE read,
                        reader |-> TRUE] : read \in {read_file_version(file_path)}} : TRUE

\* A product version read from whatever the path names.
get_product_version_without_file_test(file_path) ==
    [result |-> read_product_version(file_path), reader |-> TRUE]

\* get_product_version
get_product_version(file_path) ==
    IF is_file(file_path)
    THEN [result |-> read_product_version(file_path), reader |-> TRUE]
    ELSE [result |-> Ok(None), reader |-> FALSE]

\* read_version(state, &file_path): the function evaluate_version is handed,
\* by its name.
call_read_version(read_version, file_path) ==
    CASE read_version = "get_version" -> get_version(file_path)
      [] read_version = "get_product_version" -> get_product_version(file_path)

evaluate_version(file_path, given_version, comparator, read_version) ==
    CHOOSE result \in
        {IF ~actual_version.ok THEN actual_version
         ELSE IF ~actual_version.val.some
         THEN Ok(comparator \in {"NotEqual", "LessThan", "LessThanOrEqual"})
         ELSE Ok(compare_versions(actual_version.val.val, comparator, given_version)) :
         actual_version \in
             {call_read_version(read_version, resolve_path(file_path)).result}} : TRUE

-----------------------------------------------------------------------------
(* RwLock<HashMap> *)

EmptyMap == <<>>

\* HashMap::insert: the value of an existing key is replaced.
insert(map, key, value) == [k \in DOMAIN map \cup {key} |-> IF k = key THEN value ELSE map[k]]

\* A read that takes the map of a poisoned lock as it is.
read_lock_ok_ignoring_poison(poisoned) == TRUE

\* RwLock::read: Err when the lock is poisoned.
read_lock_ok(poisoned) == ~poisoned

\* A writer that keeps the map of a poisoned lock.
write_lock_keeping_entries(map, poisoned) == map

\* A writer that starts from a new map every time.
write_lock_always_new(map, poisoned) == EmptyMap

\* RwLock::write().unwrap_or_else(...): the map the writer holds. A poisoned
\* lock has its map replaced by HashMap::new() and its poison cleared.
write_lock(map, poisoned) == IF poisoned THEN EmptyMap ELSE map

\* A key that is the path as the caller wrote it.
lowercase_as_given(path) == path

\* path.to_str().map(str::to_lowercase): paths come from rule text and are
\* valid Unicode, so the Option is always Some.
lowercase(path) == to_lowercase(path)

-----------------------------------------------------------------------------
(* Checksum *)

\* A checksum that hashes the file on every call.
evaluate_checksum_rehashing(file_path, crc) ==
    LET key == lowercase(file_path)
        path == resolve_path(file_path)
        calculated_crc == crc32(node(path).content)
        kept == [crc_cache |-> crc_cache, crc_poisoned |-> crc_poisoned,
                 crc_hit |-> FALSE, file_read |-> FALSE, crc_wrote |-> FALSE]
    IN  IF ~is_file(path)
        THEN kept @@ [result |-> Ok(FALSE)]
        ELSE IF ~file_read_ok(path)
        THEN kept @@ [result |-> Err(IoError(file_path))]
        ELSE [crc_cache |-> insert(write_lock(crc_cache, crc_poisoned), key, calculated_crc),
              crc_poisoned |-> FALSE,
              crc_hit |-> FALSE, file_read |-> TRUE, crc_wrote |-> TRUE,
              result |-> Ok(calculated_crc = crc)]

\* A checksum that opens whatever the path resolves to.
evaluate_checksum_without_file_test(file_path, crc) ==
    LET key == lowercase(file_path)
        path == resolve_path(file_path)
        calculated_crc == crc32(node(path).content)
        kept == [crc_cache |-> crc_cache, crc_poisoned |-> crc_poisoned,
                 crc_hit |-> FALSE, file_read |-> FALSE, crc_wrote |-> FALSE]
    IN  IF read_lock_ok(crc_poisoned) /\ key \in DOMAIN crc_cache
        THEN [kept EXCEPT !.crc_hit = TRUE] @@ [result |-> Ok(crc_cache[key] = crc)]
        ELSE IF ~file_read_ok(path)
        THEN kept @@ [result |-> Err(IoError(file_path))]
        ELSE [crc_cache |-> insert(write_lock(crc_cache, crc_poisoned), key, calculated_crc),
              crc_poisoned |-> FALSE,
              crc_hit |-> FALSE, file_read |-> TRUE, crc_wrote |-> TRUE,
              result |-> Ok(calculated_crc = crc)]

\* The result with the crc cache as the call leaves it, and what the call did:
\* crc_hit (the stored CRC answered), file_read (the file was hashed),
\* crc_wrote (the write path ran).
evaluate_checksum(file_path, crc) ==
    LET key == lowercase(file_path)
        path == resolve_path(file_path)
        calculated_crc == crc32(node(path).content)
        kept == [crc_cache |-> crc_cache, crc_poisoned |-> crc_poisoned,
                 crc_hit |-> FALSE, file_read |-> FALSE, crc_wrote |-> FALSE]
    IN  IF read_lock_ok(crc_poisoned) /\ key \in DOMAIN crc_cache
        THEN [kept EXCEPT !.crc_hit = TRUE] @@ [result |-> Ok(crc_cache[key] = crc)]
        ELSE IF ~is_file(path)
        THEN kept @@ [result |-> Ok(FALSE)]
        ELSE IF ~file_read_ok(path)
        THEN kept @@ [result |-> Err(IoError(file_path))]
        ELSE [crc_cache |-> insert(write_lock(crc_cache, crc_poisoned), key, calculated_crc),
              crc_poisoned |-> FALSE,
              crc_hit |-> FALSE, file_read |-> TRUE, crc_wrote |-> TRUE,
              result |-> Ok(calculated_crc = crc)]

-----------------------------------------------------------------------------
(* Function and Function::eval *)

FilePath(p) == [kind |-> "FilePath", path |-> p]
FileRegex(p, r) == [kind |-> "FileRegex", path |-> p, regex |-> r]
FileSize(p, size) == [kind |-> "FileSize", path |-> p, size |-> size]
Readable(p) == [kind |-> "Readable", path |-> p]
IsExecutable(p) == [kind |-> "IsExecutable", path |-> p]
ActivePath(p) == [kind |-> "ActivePath", path |-> p]
ActiveRegex(r) == [kind |-> "ActiveRegex", regex |-> r]
IsMaster(p) == [kind |-> "IsMaster", path |-> p]
Many(p, r) == [kind |-> "Many", path |-> p, regex |-> r]
ManyActive(r) == [kind |-> "ManyActive", regex |-> r]
Checksum(p, crc) == [kind |-> "Checksum", path |-> p, crc |-> crc]
DescriptionContains(p, r) == [kind |-> "DescriptionContains", path |-> p, regex |-> r]
Version(p, v, c) == [kind |-> "Version", path |-> p, version |-> v, comparator |-> c]
ProductVersion(p, v, c) ==
    [kind |-> "ProductVersion", path |-> p, version |-> v, comparator |-> c]
FilenameVersion(p, r, v, c) ==
    [kind |-> "FilenameVersion", path |-> p, regex |-> r, version |-> v, comparator |-> c]

FastKinds == {"ActivePath", "ActiveRegex", "ManyActive", "Checksum"}

\* Every kind takes the cached route.
is_slow_for_every_kind(f) == TRUE

is_slow(f) == f.kind \notin FastKinds

\* An evaluator that leaves the crc cache alone.
NoCrc(result) ==
    [result |-> result, crc_cache |-> crc_cache, crc_poisoned |-> crc_poisoned,
     crc_hit |-> FALSE, file_read |-> FALSE, crc_wrote |-> FALSE]

\* let result = match self { ... }
match_self(f) ==
    CASE f.kind = "FilePath" -> NoCrc(Ok(evaluate_file_path(f.path)))
      [] f.kind = "FileRegex" -> NoCrc(evaluate_file_regex(f.path, f.regex).result)
      [] f.kind = "FileSize" -> NoCrc(evaluate_file_size(f.path, f.size))
      [] f.kind = "Readable" -> NoCrc(Ok(evaluate_readable(f.path)))
      [] f.kind = "IsExecutable" -> NoCrc(Ok(evaluate_is_executable(f.path)))
      [] f.kind = "ActivePath" -> NoCrc(Ok(evaluate_active_path(f.path)))
      [] f.kind = "ActiveRegex" -> NoCrc(Ok(evaluate_active_regex(f.regex)))
      [] f.kind = "IsMaster" -> NoCrc(Ok(evaluate_is_master(f.path)))
      [] f.kind = "Many" -> NoCrc(evaluate_many(f.path, f.regex).result)
      [] f.kind = "ManyActive" -> NoCrc(Ok(evaluate_many_active(f.regex)))
      [] f.kind = "Checksum" -> evaluate_checksum(f.path, f.crc)
      [] f.kind = "Version" ->
             NoCrc(evaluate_version(f.path, f.version, f.comparator, "get_version"))
      [] f.kind = "ProductVersion" ->
             NoCrc(evaluate_version(f.path, f.version, f.comparator, "get_product_version"))
      [] f.kind = "FilenameVersion" ->
             NoCrc(evaluate_filename_version(f.path, f.regex, f.version, f.comparator).result)
      [] f.kind = "DescriptionContains" ->
             NoCrc(Ok(evaluate_description_contains(f.path, f.regex)))

\* An eval that never finds a cached result.
cached_result_never_found(f) == None

\* The first block of eval: the cached result, if the function is slow, the
\* lock can be read and the function is a key.
cached_result(f) ==
    IF is_slow(f) /\ read_lock_ok(condition_poisoned) /\ f \in DOMAIN condition_cache
    THEN Some(condition_cache[f])
    ELSE None

\* An eval that stores false for a result that is an error.
store_result_of_errors(f, result) ==
    IF is_slow(f)
    THEN [condition_cache |->
              insert(write_lock(condition_cache, condition_poisoned), f,
                     IF result.ok THEN result.val ELSE FALSE),
          condition_poisoned |-> FALSE,
          cache_wrote |-> TRUE]
    ELSE [condition_cache |-> condition_cache,
          condition_poisoned |-> condition_poisoned,
          cache_wrote |-> FALSE]

\* The last block of eval: the condition cache and its poison flag after the
\* result of the match is known.
store_result(f, result) ==
    IF is_slow(f) /\ result.ok
    THEN [condition_cache |->
              insert(write_lock(condition_cache, condition_poisoned), f, result.val),
          condition_poisoned |-> FALSE,
          cache_wrote |-> TRUE]
    ELSE [condition_cache |-> condition_cache,
          condition_poisoned |-> condition_poisoned,
          cache_wrote |-> FALSE]

\* Function::eval: the result, both caches as the call leaves them, and what
\* the call did: cache_read (condition_cache.read() was called), cache_hit,
\* computed (the match ran), cache_wrote (condition_cache.write() was called),
\* and the three marks of evaluate_checksum.
eval(f) ==
    LET cached == cached_result(f)
    IN  IF cached.some
        THEN NoCrc(Ok(cached.val)) @@
             [condition_cache |-> condition_cache, condition_poisoned |-> condition_poisoned,
              cache_read |-> TRUE, cache_hit |-> TRUE, computed |-> FALSE,
              cache_wrote |-> FALSE]
        ELSE CHOOSE r \in
                 {m @@ store_result(f, m.result) @@
                  [cache_read |-> is_slow(f), cache_hit |-> FALSE, computed |-> TRUE] :
                  m \in {match_self(f)}} : TRUE

-----------------------------------------------------------------------------
(* A session: calls of eval on one context, one after the other, while the *)
(* environment changes the filesystem and a writer that panics poisons a   *)
(* lock. The session ends with its last call.                              *)

FilePaths == {Join(data_path, NameAEsp)}
DirPaths == {Join(data_path, DirData)}

\* The listings the data directory changes between: empty, an entry and its
\* ghosted twin, an entry that cannot be read.
SessionListings ==
    {ReadDirOk(<<>>), ReadDirOk(<<DirEntry(NameAEsp), DirEntry(NameAEspGhost)>>),
     ReadDirOk(<<EntryError>>)}

Crcs == {crc32(c) : c \in Contents}

Functions ==
    {FilePath(NameAEsp), FileSize(NameAEsp, content_len("Blank.esm")),
     IsExecutable(NameAEsp), IsMaster(NameAEsp),
     DescriptionContains(NameAEsp, {"v5.0"}),
     FileRegex(DirData, {NameAEsp}), Many(DirData, {NameAEsp}),
     ActivePath(NameAEspUpper), ActiveRegex({NameBEsp}),
     ManyActive({NameAEsp, NameBEsp})}
    \cup {Checksum(NameAEsp, crc) : crc \in Crcs}

NoCall == [fn |-> [kind |-> "None"], result |-> Ok(FALSE)]

Init ==
    /\ game_type = "Oblivion"
    /\ additional_data_paths = <<>>
    /\ active_plugins = {NameAEsp, NameBEsp}
    /\ plugin_versions = <<>>
    /\ crc_cache = EmptyMap
    /\ crc_poisoned = FALSE
    /\ condition_cache = EmptyMap
    /\ condition_poisoned = FALSE
    /\ files = [p \in FilePaths |-> Missing]
    /\ dirs = [d \in DirPaths |-> ReadDirOk(<<>>)]
    /\ last = NoCall
    /\ returned = EmptyMap
    /\ ever_returned = EmptyMap
    /\ calls = 0
    /\ threads = NoThreads
    /\ process = TestProcess

\* function.eval(&state)
Evaluate(f) ==
    /\ calls < MaxCalls
    /\ \E r \in {eval(f)} :
       LET remember == is_slow(f) /\ r.result.ok
       IN  /\ crc_cache' = r.crc_cache
           /\ crc_poisoned' = r.crc_poisoned
           /\ condition_cache' = r.condition_cache
           /\ condition_poisoned' = r.condition_poisoned
           /\ last' = [fn |-> f, result |-> r.result,
                       cache_read |-> r.cache_read, cache_hit |-> r.cache_hit,
                       computed |-> r.computed, cache_wrote |-> r.cache_wrote,
                       crc_hit |-> r.crc_hit, file_read |-> r.file_read,
                       crc_wrote |-> r.crc_wrote,
                       poison_before |-> condition_poisoned,
                       crc_poison_before |-> crc_poisoned]
           /\ returned' = IF remember THEN insert(returned, f, r.result.val) ELSE returned
           /\ ever_returned' = IF remember /\ f \notin DOMAIN ever_returned
                               THEN insert(ever_returned, f, r.result.val)
                               ELSE ever_returned
    /\ calls' = calls + 1
    /\ UNCHANGED <<context, threads, process, files, dirs>>

\* std::fs::copy onto the path
WriteFile(p, content) ==
    /\ calls < MaxCalls
    /\ files' = [files EXCEPT ![p] = RegularFile(content, TRUE)]
    /\ UNCHANGED <<context, threads, process, caches, dirs, last, history, calls>>

\* std::fs::remove_file
RemoveFile(p) ==
    /\ calls < MaxCalls
    /\ files[p].kind = "file"
    /\ files' = [files EXCEPT ![p] = Missing]
    /\ UNCHANGED <<context, threads, process, caches, dirs, last, history, calls>>

\* std::fs::create_dir_all
CreateDir(p) ==
    /\ calls < MaxCalls
    /\ files[p].kind = "missing"
    /\ files' = [files EXCEPT ![p] = Directory]
    /\ UNCHANGED <<context, threads, process, caches, dirs, last, history, calls>>

\* the file's permissions stop it being opened
MakeUnreadable(p) ==
    /\ calls < MaxCalls
    /\ files[p].kind = "file"
    /\ files[p].readable
    /\ files' = [files EXCEPT ![p].readable = FALSE]
    /\ UNCHANGED <<context, threads, process, caches, dirs, last, history, calls>>

\* the directory's entries change, or it stops being listable
ChangeDir(d, listing) ==
    /\ calls < MaxCalls
    /\ dirs' = [dirs EXCEPT ![d] = listing]
    /\ UNCHANGED <<context, threads, process, caches, files, last, history, calls>>

\* A thread holding the write guard of the crc cache panics.
PoisonCrcCache ==
    /\ calls < MaxCalls
    /\ ~crc_poisoned
    /\ crc_poisoned' = TRUE
    /\ UNCHANGED <<context, threads, process, crc_cache, condition_cache, condition_poisoned, files, dirs,
                   last, history, calls>>

\* A thread holding the write guard of the condition cache panics.
PoisonConditionCache ==
    /\ calls < MaxCalls
    /\ ~condition_poisoned
    /\ condition_poisoned' = TRUE
    /\ returned' = EmptyMap
    /\ UNCHANGED <<context, threads, process, crc_cache, crc_poisoned, condition_cache, files, dirs,
                   last, ever_returned, calls>>

Next ==
    \/ \E f \in Functions : Evaluate(f)
    \/ \E p \in FilePaths, content \in Contents : WriteFile(p, content)
    \/ \E p \in FilePaths : RemoveFile(p)
    \/ \E p \in FilePaths : CreateDir(p)
    \/ \E p \in FilePaths : MakeUnreadable(p)
    \/ \E d \in DirPaths, listing \in SessionListings : ChangeDir(d, listing)
    \/ PoisonCrcCache
    \/ PoisonConditionCache

Spec == Init /\ [][Next]_vars

-----------------------------------------------------------------------------
(* Checksum sessions: calls of Checksum predicates that name one file in    *)
(* either letter case, with either expected crc, while the file changes and *)
(* the lock of the crc cache is poisoned.                                   *)

ChecksumFunctions == {Checksum(p, crc) : p \in {NameAEsp, NameAEspUpper}, crc \in Crcs}

NextChecksum ==
    \/ \E f \in ChecksumFunctions : Evaluate(f)
    \/ \E p \in FilePaths, content \in Contents : WriteFile(p, content)
    \/ \E p \in FilePaths : RemoveFile(p)
    \/ \E p \in FilePaths : MakeUnreadable(p)
    \/ PoisonCrcCache

SpecChecksum == Init /\ [][NextChecksum]_vars

-----------------------------------------------------------------------------
(* Sessions of the predicates that can fail: a FileRegex over a directory   *)
(* with an entry that cannot be read, a Checksum of a file that cannot be   *)
(* opened, a Version and a ProductVersion of a file that is not an          *)
(* executable; the files and the directory change and the locks are         *)
(* poisoned between the calls.                                              *)

FailurePaths == {Join(data_path, NameAEsp), Join(data_path, NameLootDll)}
FailureContents == {"Blank.esm", "loot.dll"}

FailureFunctions ==
    {FileRegex(DirData, {NameAEsp}), Checksum(NameAEsp, crc32("Blank.esm")),
     Version(NameLootDll, <<49>>, "NotEqual"), ProductVersion(NameLootDll, <<49>>, "NotEqual")}

InitFailures ==
    /\ game_type = "Oblivion"
    /\ additional_data_paths = <<>>
    /\ active_plugins = {}
    /\ plugin_versions = <<>>
    /\ crc_cache = EmptyMap
    /\ crc_poisoned = FALSE
    /\ condition_cache = EmptyMap
    /\ condition_poisoned = FALSE
    /\ files = [p \in FailurePaths |-> Missing]
    /\ dirs = [d \in DirPaths |-> ReadDirOk(<<>>)]
    /\ last = NoCall
    /\ returned = EmptyMap
    /\ ever_returned = EmptyMap
    /\ calls = 0
    /\ threads = NoThreads
    /\ process = TestProcess

NextFailures ==
    \/ \E f \in FailureFunctions : Evaluate(f)
    \/ \E p \in FailurePaths, content \in FailureContents : WriteFile(p, content)
    \/ \E p \in FailurePaths : MakeUnreadable(p)
    \/ \E d \in DirPaths, listing \in SessionListings : ChangeDir(d, listing)
    \/ PoisonCrcCache
    \/ PoisonConditionCache

SpecFailures == InitFailures /\ [][NextFailures]_vars

-----------------------------------------------------------------------------
(* Sessions over a filesystem that does not change: calls of eval on one    *)
(* context whose files and directory are any, but stay as they are, and     *)
(* whose locks are never poisoned.                                          *)

StableNodes ==
    {Missing, Directory, RegularFile("Blank.esm", FALSE)}
        \cup {RegularFile(c, TRUE) : c \in Contents}

StableFunctions ==
    {FilePath(NameAEsp), FileSize(NameAEsp, content_len("Blank.esm")), IsMaster(NameAEsp),
     FileRegex(DirData, {NameAEsp}), Many(DirData, {NameAEsp})}
        \cup ChecksumFunctions

InitStable ==
    /\ game_type = "Oblivion"
    /\ additional_data_paths = <<>>
    /\ active_plugins = {}
    /\ plugin_versions = <<>>
    /\ crc_cache = EmptyMap
    /\ crc_poisoned = FALSE
    /\ condition_cache = EmptyMap
    /\ condition_poisoned = FALSE
    /\ files \in [FilePaths -> StableNodes]
    /\ dirs \in [DirPaths -> SessionListings]
    /\ last = NoCall
    /\ returned = EmptyMap
    /\ ever_returned = EmptyMap
    /\ calls = 0
    /\ threads = NoThreads
    /\ process = TestProcess

NextStable == \E f \in StableFunctions : Evaluate(f)

SpecStable == InitStable /\ [][NextStable]_vars

-----------------------------------------------------------------------------
(* The overlay enumeration on its own: a context with any game type, up to *)
(* two additional data paths and any listing under each base path; the     *)
(* evaluators of FileRegex and Many are applied to it.                     *)

OverlayData ==
    {<<>>, <<AdditionalPaths[1]>>, <<AdditionalPaths[1], AdditionalPaths[2]>>}

JoinedDirs(additional) == {Join(b, DirData) : b \in Range(additional) \cup {data_path}}

InitOverlay ==
    /\ game_type \in GameTypes
    /\ additional_data_paths \in OverlayData
    /\ active_plugins = {}
    /\ plugin_versions = <<>>
    /\ crc_cache = EmptyMap
    /\ crc_poisoned = FALSE
    /\ condition_cache = EmptyMap
    /\ condition_poisoned = FALSE
    /\ files = [p \in FilePaths |-> Missing]
    /\ dirs \in [JoinedDirs(additional_data_paths) -> Listings(MaxEntries)]
    /\ last = NoCall
    /\ returned = EmptyMap
    /\ ever_returned = EmptyMap
    /\ calls = 0
    /\ threads = NoThreads
    /\ process = TestProcess

\* What a call of an overlay evaluator leaves to look at: the function, the
\* result, the read_dir calls made and the entries handed to the closure.
Scanned(f, st) ==
    [fn |-> f, result |-> st.result, listed |-> st.listed, visited |-> st.visited]

CallFileRegex(regex) ==
    /\ last' = Scanned(FileRegex(DirData, regex), evaluate_file_regex(DirData, regex))
    /\ UNCHANGED <<context, threads, process, caches, files, dirs, history, calls>>

CallMany(regex) ==
    /\ last' = Scanned(Many(DirData, regex), evaluate_many(DirData, regex))
    /\ UNCHANGED <<context, threads, process, caches, files, dirs, history, calls>>

NextOverlay ==
    \/ \E regex \in Regexes : CallFileRegex(regex)
    \/ \E regex \in Regexes : CallMany(regex)

SpecOverlay == InitOverlay /\ [][NextOverlay]_vars

-----------------------------------------------------------------------------
(* Version strings parsed and compared: one call of Version::from, or one   *)
(* comparison of two parsed versions, on a context that is otherwise idle.  *)

\* '0' '1' 'a' '.' '-', and with them 'B' '+' ' ' ':' '_'
CompareChars == {48, 49, 97, 46, 45}
ParseChars == CompareChars \cup {66, 43, 32, 58, 95}

Strings(chars, n) == UNION {[1..k -> chars] : k \in 0..n}

InitVersion ==
    /\ game_type = "Oblivion"
    /\ additional_data_paths = <<>>
    /\ active_plugins = {}
    /\ plugin_versions = <<>>
    /\ crc_cache = EmptyMap
    /\ crc_poisoned = FALSE
    /\ condition_cache = EmptyMap
    /\ condition_poisoned = FALSE
    /\ files = [p \in FilePaths |-> Missing]
    /\ dirs = [d \in DirPaths |-> ReadDirOk(<<>>)]
    /\ last = NoCall
    /\ returned = EmptyMap
    /\ ever_returned = EmptyMap
    /\ calls = 0
    /\ threads = NoThreads
    /\ process = TestProcess

\* Version::from(string)
CallVersionFrom(string) ==
    /\ calls = 0
    /\ last' = [fn |-> [kind |-> "Version::from"], string |-> string,
                version |-> Version_from(string)]
    /\ calls' = calls + 1
    /\ UNCHANGED <<context, threads, process, caches, files, dirs, history>>

\* The version just parsed compared with Version::from(b): by ==, by
\* partial_cmp, and by partial_cmp with the operands exchanged.
CallVersionCompare(b) ==
    /\ calls = 1
    /\ last.fn.kind = "Version::from"
    /\ LET self == last.version
           other == Version_from(b)
       IN  last' = [fn |-> [kind |-> "Version::partial_cmp"], a |-> last.string, b |-> b,
                    self |-> self, other |-> other,
                    eq |-> Version_eq(self, other),
                    ordering |-> Version_partial_cmp(self, other),
                    reverse |-> Version_partial_cmp(other, self)]
    /\ calls' = calls + 1
    /\ UNCHANGED <<context, threads, process, caches, files, dirs, history>>

\* "0.0.5-5" "0.0.5-5.0" "0.0.5-5.10" "0.0.5-10.5" "1.0.0" "1.0.0-alpha": the
\* versions the tests of the pre-release comparison use
TestVersions ==
    {<<48, 46, 48, 46, 53, 45, 53>>,
     <<48, 46, 48, 46, 53, 45, 53, 46, 48>>,
     <<48, 46, 48, 46, 53, 45, 53, 46, 49, 48>>,
     <<48, 46, 48, 46, 53, 45, 49, 48, 46, 53>>,
     <<49, 46, 48, 46, 48>>,
     <<49, 46, 48, 46, 48, 45, 97, 108, 112, 104, 97>>}

NextVersion ==
    \/ /\ calls = 0
       /\ \E string \in Strings(ParseChars, MaxVersionLen) \cup TestVersions :
              CallVersionFrom(string)
    \/ /\ calls = 1
       /\ last.string \in Strings(CompareChars, MaxVersionLen) \cup TestVersions
       /\ \E b \in Strings(CompareChars, MaxVersionLen) \cup TestVersions :
              CallVersionCompare(b)

SpecVersion == InitVersion /\ [][NextVersion]_vars

-----------------------------------------------------------------------------
(* The version predicates: one call of Function::eval on a Version or a     *)
(* ProductVersion function, or one call of get_version or                   *)
(* get_product_version, on a context with any file under two names and any *)
(* override.                                                                *)

VersionPaths == {NameAEspUpper, NameLootDll}

\* "", "0", "1", "0.18.2", "0.18.2.0"
GivenVersions ==
    {<<>>, <<48>>, <<49>>, <<48, 46, 49, 56, 46, 50>>, <<48, 46, 49, 56, 46, 50, 46, 48>>}

\* No override, or "1" for one of the names (keys are lowercased).
Overrides == {EmptyMap} \cup {(to_lowercase(n) :> <<49>>) : n \in VersionPaths}

Nodes ==
    {Missing, Directory, RegularFile("loot.dll", FALSE), RegularFile("Blank.esm", TRUE)}
        \cup {RegularFile(c, TRUE) : c \in ExecutableContents}

VersionFunctions ==
    {Version(p, v, c) : p \in VersionPaths, v \in GivenVersions, c \in ComparisonOperators}
        \cup {ProductVersion(p, v, c) :
                  p \in VersionPaths, v \in GivenVersions, c \in ComparisonOperators}

InitVersionEval ==
    /\ game_type = "Oblivion"
    /\ additional_data_paths = <<>>
    /\ active_plugins = {}
    /\ plugin_versions \in Overrides
    /\ crc_cache = EmptyMap
    /\ crc_poisoned = FALSE
    /\ condition_cache = EmptyMap
    /\ condition_poisoned = FALSE
    /\ files \in [{Join(data_path, n) : n \in VersionPaths} -> Nodes]
    /\ dirs = [d \in DirPaths |-> ReadDirOk(<<>>)]
    /\ last = NoCall
    /\ returned = EmptyMap
    /\ ever_returned = EmptyMap
    /\ calls = 0
    /\ threads = NoThreads
    /\ process = TestProcess

\* function.eval(&state), once
EvaluateVersion(f) ==
    /\ calls = 0
    /\ Evaluate(f)

\* get_version(&state, &resolve_path(&state, path))
CallGetVersion(path) ==
    /\ calls = 0
    /\ \E file_path \in {resolve_path(path)} :
       \E r \in {get_version(file_path)} :
           last' = [fn |-> [kind |-> "get_version"], path |-> path,
                    file_path |-> file_path, result |-> r.result, reader |-> r.reader]
    /\ calls' = calls + 1
    /\ UNCHANGED <<context, threads, process, caches, files, dirs, history>>

\* get_product_version(&resolve_path(&state, path))
CallGetProductVersion(path) ==
    /\ calls = 0
    /\ \E file_path \in {resolve_path(path)} :
       \E r \in {get_product_version(file_path)} :
           last' = [fn |-> [kind |-> "get_product_version"], path |-> path,
                    file_path |-> file_path, result |-> r.result, reader |-> r.reader]
    /\ calls' = calls + 1
    /\ UNCHANGED <<context, threads, process, caches, files, dirs, history>>

NextVersionEval ==
    \/ \E f \in VersionFunctions : EvaluateVersion(f)
    \/ \E path \in VersionPaths : CallGetVersion(path)
    \/ \E path \in VersionPaths : CallGetProductVersion(path)

SpecVersionEval == InitVersionEval /\ [][NextVersionEval]_vars

-----------------------------------------------------------------------------
(* FilenameVersion over the overlay: one call on a context with any        *)
(* listing under each base path, for Oblivion and for OpenMW (whose file    *)
(* names are not normalised).                                               *)

\* The text a group captures from a name: "a" or "esp".
CapturedTexts == {<<97>>, <<101, 115, 112>>}

\* The regexes: a table over some of the normalised names.
CaptureRegexes ==
    UNION {[names -> {None} \cup {Some(t) : t \in CapturedTexts}] : names \in SUBSET RawNames}

\* "a", "b"
FilenameVersions == {<<97>>, <<98>>}

\* No additional data path, or one.
FilenameVersionData == {<<>>, <<AdditionalPaths[1]>>}

InitFilenameVersion ==
    /\ game_type \in {"Oblivion", "OpenMW"}
    /\ additional_data_paths \in FilenameVersionData
    /\ active_plugins = {}
    /\ plugin_versions = <<>>
    /\ crc_cache = EmptyMap
    /\ crc_poisoned = FALSE
    /\ condition_cache = EmptyMap
    /\ condition_poisoned = FALSE
    /\ files = [p \in FilePaths |-> Missing]
    /\ dirs \in [JoinedDirs(additional_data_paths) -> Listings(MaxEntries)]
    /\ last = NoCall
    /\ returned = EmptyMap
    /\ ever_returned = EmptyMap
    /\ calls = 0
    /\ threads = NoThreads
    /\ process = TestProcess

CallFilenameVersion(regex, version, comparator) ==
    /\ calls = 0
    /\ last' = Scanned(FilenameVersion(DirData, regex, version, comparator),
                       evaluate_filename_version(DirData, regex, version, comparator))
    /\ calls' = calls + 1
    /\ UNCHANGED <<context, threads, process, caches, files, dirs, history>>

NextFilenameVersion ==
    /\ calls = 0
    /\ \E regex \in CaptureRegexes, version \in FilenameVersions,
          comparator \in ComparisonOperators :
           CallFilenameVersion(regex, version, comparator)

SpecFilenameVersion == InitFilenameVersion /\ [][NextFilenameVersion]_vars

-----------------------------------------------------------------------------
(* Identifiers parsed and compared: one call of Identifier::from, or one   *)
(* comparison of two parsed identifiers.                                    *)

\* "0" "5" "05" "007"
SmallNumerals == {<<48>>, <<53>>, <<48, 53>>, <<48, 48, 55>>}

\* "4294967295" "04294967295" "4294967296" "04294967296" "10000000000"
\* "99999999999": u32::MAX and the numerals about it
LargeNumerals ==
    {U32_MAX, <<48>> \o U32_MAX,
     <<52, 50, 57, 52, 57, 54, 55, 50, 57, 54>>,
     <<48, 52, 50, 57, 52, 57, 54, 55, 50, 57, 54>>,
     <<49, 48, 48, 48, 48, 48, 48, 48, 48, 48, 48>>,
     <<57, 57, 57, 57, 57, 57, 57, 57, 57, 57, 57>>}

\* "" "a" "A" "1a" "+5" "-5"
Texts == {<<>>, <<97>>, <<65>>, <<49, 97>>, <<43, 53>>, <<45, 53>>}

IdentifierStrings == SmallNumerals \cup LargeNumerals \cup Texts

\* Identifier::from(string)
CallIdentifierFrom(string) ==
    /\ calls = 0
    /\ last' = [fn |-> [kind |-> "Identifier::from"], string |-> string,
                identifier |-> Identifier_from(string)]
    /\ calls' = calls + 1
    /\ UNCHANGED <<context, threads, process, caches, files, dirs, history>>

\* The identifier just parsed compared with Identifier::from(b)
CallIdentifierCompare(b) ==
    /\ calls = 1
    /\ last.fn.kind = "Identifier::from"
    /\ \E other \in {Identifier_from(b)} :
           last' = [fn |-> [kind |-> "Identifier::partial_cmp"], a |-> last.string, b |-> b,
                    self |-> last.identifier, other |-> other,
                    eq |-> (last.identifier = other),
                    ordering |-> Identifier_partial_cmp(last.identifier, other)]
    /\ calls' = calls + 1
    /\ UNCHANGED <<context, threads, process, caches, files, dirs, history>>

NextIdentifier ==
    \/ /\ calls = 0
       /\ \E string \in IdentifierStrings : CallIdentifierFrom(string)
    \/ /\ calls = 1
       /\ \E b \in IdentifierStrings : CallIdentifierCompare(b)

SpecIdentifier == InitVersion /\ [][NextIdentifier]_vars

-----------------------------------------------------------------------------
(* Threads: each thread calls Function::eval once on the shared context and *)
(* takes it one lock operation or one computation at a time, while the      *)
(* environment changes the files. No thread panics, so no lock is poisoned. *)

\* std::sync::RwLock: the threads that hold a guard of the lock of a cache.
\* read() is granted while no thread holds the write guard, write() while no
\* thread holds any guard. (A lock that also keeps readers waiting behind a
\* waiting writer grants a subset of these acquisitions.)
ReadGuard(cache) == <<cache, "read">>
WriteGuard(cache) == <<cache, "write">>
readers(cache) == {t \in Threads : ReadGuard(cache) \in threads[t].guards}
writers(cache) == {t \in Threads : WriteGuard(cache) \in threads[t].guards}
read_ready(cache) == writers(cache) = {}
write_ready(cache) == readers(cache) = {} /\ writers(cache) = {}

\* A guard that is kept when it goes out of scope.
drop_keeping_guard(guards, cache) == guards

\* The guard of the cache goes out of scope.
drop(guards, cache) == guards \ {ReadGuard(cache), WriteGuard(cache)}

ThreadFunctions == {FilePath(NameAEsp), Checksum(NameAEsp, crc32("Blank.esm"))}

InitThreads ==
    /\ game_type = "Oblivion"
    /\ additional_data_paths = <<>>
    /\ active_plugins = {}
    /\ plugin_versions = <<>>
    /\ crc_cache = EmptyMap
    /\ crc_poisoned = FALSE
    /\ condition_cache = EmptyMap
    /\ condition_poisoned = FALSE
    /\ files = [p \in FilePaths |-> Missing]
    /\ dirs = [d \in DirPaths |-> ReadDirOk(<<>>)]
    /\ last = NoCall
    /\ returned = EmptyMap
    /\ ever_returned = EmptyMap
    /\ calls = 0
    /\ threads = NoThreads
    /\ process = TestProcess

\* What a step of a thread leaves to look at.
Step(t, name) == [fn |-> threads[t].fn, thread |-> t, step |-> name]

\* function.eval(&state) is called: if self.is_slow()
ThreadCall(t, f) ==
    /\ threads[t].pc = "idle"
    /\ threads' = [threads EXCEPT ![t].fn = f,
                                  ![t].pc = IF is_slow(f) THEN "condition_cache.read"
                                            ELSE "match"]
    /\ UNCHANGED <<context, process, caches, files, dirs, last, history, calls>>

\* state.condition_cache.read()
ConditionCacheRead(t) ==
    /\ threads[t].pc = "condition_cache.read"
    /\ read_ready("condition_cache")
    /\ threads' = [threads EXCEPT ![t].guards = @ \cup {ReadGuard("condition_cache")},
                                  ![t].pc = "reader.get"]
    /\ UNCHANGED <<context, process, caches, files, dirs, last, history, calls>>

\* if let Some(cached_result) = reader.get(self) { return Ok(*cached_result); }
\* and the end of the if let, where the guard is dropped
ConditionReaderGet(t) ==
    /\ threads[t].pc = "reader.get"
    /\ \E cached \in {cached_result(threads[t].fn)} :
           threads' = [threads EXCEPT
                           ![t].guards = drop(@, "condition_cache"),
                           ![t].result = IF cached.some THEN Ok(cached.val) ELSE @,
                           ![t].pc = IF cached.some THEN "return" ELSE "match"]
    /\ last' = Step(t, "reader.get") @@ [hit |-> cached_result(threads[t].fn).some]
    /\ UNCHANGED <<context, process, caches, files, dirs, history, calls>>

\* let result = match self { ... } for every kind but Checksum, and the
\* if self.is_slow() / if let Ok(function_result) = result that follow
Match(t) ==
    /\ threads[t].pc = "match"
    /\ threads[t].fn.kind # "Checksum"
    /\ \E r \in {match_self(threads[t].fn).result} :
           threads' = [threads EXCEPT
                           ![t].result = r,
                           ![t].pc = IF is_slow(threads[t].fn) /\ r.ok
                                     THEN "condition_cache.write" ELSE "return"]
    /\ UNCHANGED <<context, process, caches, files, dirs, last, history, calls>>

\* Function::Checksum(path, crc) => evaluate_checksum(state, path, *crc)
MatchChecksum(t) ==
    /\ threads[t].pc = "match"
    /\ threads[t].fn.kind = "Checksum"
    /\ threads' = [threads EXCEPT ![t].pc = "crc_cache.read"]
    /\ UNCHANGED <<context, process, caches, files, dirs, last, history, calls>>

\* state.crc_cache.read()
CrcCacheRead(t) ==
    /\ threads[t].pc = "crc_cache.read"
    /\ read_ready("crc_cache")
    /\ threads' = [threads EXCEPT ![t].guards = @ \cup {ReadGuard("crc_cache")},
                                  ![t].pc = "crc reader.get"]
    /\ UNCHANGED <<context, process, caches, files, dirs, last, history, calls>>

\* if let Some(cached_crc) = reader.get(&key) { return Ok(*cached_crc == crc); }
\* and the end of the if let, where the guard is dropped
CrcReaderGet(t) ==
    /\ threads[t].pc = "crc reader.get"
    /\ LET key == lowercase(threads[t].fn.path)
           hit == read_lock_ok(crc_poisoned) /\ key \in DOMAIN crc_cache
       IN  /\ threads' = [threads EXCEPT
                              ![t].guards = drop(@, "crc_cache"),
                              ![t].result = IF hit THEN Ok(crc_cache[key] = threads[t].fn.crc)
                                            ELSE @,
                              ![t].pc = IF hit THEN "return" ELSE "resolve_path"]
           /\ last' = Step(t, "crc reader.get") @@ [hit |-> hit]
    /\ UNCHANGED <<context, process, caches, files, dirs, history, calls>>

\* let path = resolve_path(state, file_path); if !path.is_file() { return
\* Ok(false); }
ResolveIsFile(t) ==
    /\ threads[t].pc = "resolve_path"
    /\ \E path \in {resolve_path(threads[t].fn.path)} :
           threads' = [threads EXCEPT
                           ![t].result = IF is_file(path) THEN @ ELSE Ok(FALSE),
                           ![t].pc = IF is_file(path) THEN "File::open" ELSE "return"]
    /\ UNCHANGED <<context, process, caches, files, dirs, last, history, calls>>

\* File::open(path) and the reads up to hasher.finalize(): the file is the
\* one the path resolves to now
Hash(t) ==
    /\ threads[t].pc = "File::open"
    /\ \E path \in {resolve_path(threads[t].fn.path)} :
           threads' = [threads EXCEPT
                           ![t].result = IF file_read_ok(path) THEN @
                                         ELSE Err(IoError(threads[t].fn.path)),
                           ![t].calculated_crc =
                               IF file_read_ok(path) THEN crc32(node(path).content) ELSE @,
                           ![t].pc = IF file_read_ok(path) THEN "crc_cache.write"
                                     ELSE "return"]
    /\ UNCHANGED <<context, process, caches, files, dirs, last, history, calls>>

\* state.crc_cache.write().unwrap_or_else(...)
CrcCacheWrite(t) ==
    /\ threads[t].pc = "crc_cache.write"
    /\ write_ready("crc_cache")
    /\ crc_cache' = write_lock(crc_cache, crc_poisoned)
    /\ crc_poisoned' = FALSE
    /\ threads' = [threads EXCEPT ![t].guards = @ \cup {WriteGuard("crc_cache")},
                                  ![t].pc = "crc writer.insert"]
    /\ UNCHANGED <<context, process, condition_cache, condition_poisoned, files, dirs, last, history,
                   calls>>

\* writer.insert(key, calculated_crc); Ok(calculated_crc == crc), where the
\* guard is dropped
CrcWriterInsert(t) ==
    /\ threads[t].pc = "crc writer.insert"
    /\ LET key == lowercase(threads[t].fn.path)
       IN  /\ crc_cache' = insert(crc_cache, key, threads[t].calculated_crc)
           /\ last' = Step(t, "crc writer.insert") @@
                      [key |-> key, value |-> threads[t].calculated_crc,
                       before |-> IF key \in DOMAIN crc_cache THEN Some(crc_cache[key])
                                  ELSE None]
    /\ threads' = [threads EXCEPT
                       ![t].guards = drop(@, "crc_cache"),
                       ![t].result = Ok(threads[t].calculated_crc = threads[t].fn.crc),
                       ![t].pc = "return"]
    /\ UNCHANGED <<context, process, crc_poisoned, condition_cache, condition_poisoned, files, dirs,
                   history, calls>>

\* state.condition_cache.write().unwrap_or_else(...)
ConditionCacheWrite(t) ==
    /\ threads[t].pc = "condition_cache.write"
    /\ write_ready("condition_cache")
    /\ condition_cache' = write_lock(condition_cache, condition_poisoned)
    /\ condition_poisoned' = FALSE
    /\ threads' = [threads EXCEPT ![t].guards = @ \cup {WriteGuard("condition_cache")},
                                  ![t].pc = "writer.insert"]
    /\ UNCHANGED <<context, process, crc_cache, crc_poisoned, files, dirs, last, history, calls>>

\* writer.insert(self.clone(), function_result); and the end of the block,
\* where the guard is dropped
ConditionWriterInsert(t) ==
    /\ threads[t].pc = "writer.insert"
    /\ LET key == threads[t].fn
       IN  /\ condition_cache' = insert(condition_cache, key, threads[t].result.val)
           /\ last' = Step(t, "writer.insert") @@
                      [key |-> key, value |-> threads[t].result.val,
                       before |-> IF key \in DOMAIN condition_cache
                                  THEN Some(condition_cache[key]) ELSE None]
    /\ threads' = [threads EXCEPT ![t].guards = drop(@, "condition_cache"),
                                  ![t].pc = "return"]
    /\ UNCHANGED <<context, process, crc_cache, crc_poisoned, condition_poisoned, files, dirs,
                   history, calls>>

\* result: the call returns
Return(t) ==
    /\ threads[t].pc = "return"
    /\ last' = Step(t, "return") @@ [result |-> threads[t].result]
    /\ threads' = [threads EXCEPT ![t] = [Idle EXCEPT !.pc = "returned"]]
    /\ calls' = calls + 1
    /\ UNCHANGED <<context, process, caches, files, dirs, history>>

ThreadStep(t) ==
    \/ \E f \in ThreadFunctions : ThreadCall(t, f)
    \/ ConditionCacheRead(t)
    \/ ConditionReaderGet(t)
    \/ Match(t)
    \/ MatchChecksum(t)
    \/ CrcCacheRead(t)
    \/ CrcReaderGet(t)
    \/ ResolveIsFile(t)
    \/ Hash(t)
    \/ CrcCacheWrite(t)
    \/ CrcWriterInsert(t)
    \/ ConditionCacheWrite(t)
    \/ ConditionWriterInsert(t)
    \/ Return(t)

NextThreads ==
    \/ \E t \in Threads : ThreadStep(t)
    \/ \E p \in FilePaths, content \in Contents : WriteFile(p, content)
    \/ \E p \in FilePaths : RemoveFile(p)

SpecThreads == InitThreads /\ [][NextThreads]_vars

\* The scheduler lets every thread that can take a step take one: a thread
\* is never left aside for ever while its next statement is not blocked.
SpecThreadsFair == SpecThreads /\ \A t \in Threads : WF_vars(ThreadStep(t))

-----------------------------------------------------------------------------
(* Readable: one call on a context without additional data paths, for any   *)
(* node of the name under the data path and under the working directory,    *)
(* with the working directory at the data path or elsewhere.                *)

ReadablePaths == {Join(data_path, NameUnreadable), Join(WorkingDir, NameUnreadable)}

\* Missing, a directory that can or cannot be listed, a file that can or
\* cannot be opened.
ReadableNodes ==
    {Missing, Directory, [Directory EXCEPT !.readable = FALSE],
     RegularFile("Blank.esm", TRUE), RegularFile("Blank.esm", FALSE)}

InitReadable ==
    /\ game_type = "Oblivion"
    /\ additional_data_paths = <<>>
    /\ active_plugins = {}
    /\ plugin_versions = <<>>
    /\ crc_cache = EmptyMap
    /\ crc_poisoned = FALSE
    /\ condition_cache = EmptyMap
    /\ condition_poisoned = FALSE
    /\ files \in [ReadablePaths -> ReadableNodes]
    /\ dirs = [d \in DirPaths |-> ReadDirOk(<<>>)]
    /\ last = NoCall
    /\ returned = EmptyMap
    /\ ever_returned = EmptyMap
    /\ calls = 0
    /\ threads = NoThreads
    /\ process \in [current_dir : {data_path, WorkingDir}, os : OperatingSystems]

EvaluateReadable(path) ==
    /\ calls = 0
    /\ Evaluate(Readable(path))

NextReadable == EvaluateReadable(NameUnreadable)

SpecReadable == InitReadable /\ [][NextReadable]_vars

-----------------------------------------------------------------------------
(* Properties of the two caches (checked under Spec) *)

IsCall == calls' # calls

\* C1 as stated: once a slow predicate has returned Ok(b), every later call
\* of it returns Ok(b).
C1_Original ==
    [][IsCall /\ last'.fn \in DOMAIN ever_returned
           => last'.result = Ok(ever_returned[last'.fn])]_vars

\* C1, amended: a slow predicate that has returned Ok(b) returns Ok(b) again
\* without running the match, whatever happened to the filesystem, for as long
\* as the lock of the condition cache has not been poisoned since.
C1_ResultKeptUntilPoisoned ==
    [][IsCall /\ last'.fn \in DOMAIN returned
           => last'.result = Ok(returned[last'.fn]) /\ ~last'.computed]_vars

\* FilePath is still true after the file has been removed.
C1_Witness ==
    /\ last.fn = FilePath(NameAEsp)
    /\ last.cache_hit
    /\ last.result = Ok(TRUE)
    /\ ~evaluate_file_path(NameAEsp)

\* C2: when a Checksum call has stored the file's CRC and the same predicate
\* is evaluated again, whatever was done to the file in between, the second
\* call returns what the first returned and does not read the file.
C2_ChecksumNotRehashed ==
    [][(/\ IsCall
        /\ last'.fn.kind = "Checksum"
        /\ last.fn = last'.fn
        /\ (last.crc_wrote \/ last.crc_hit)
        /\ ~crc_poisoned)
           => (last'.result = last.result /\ last'.crc_hit /\ ~last'.file_read)]_vars

\* The stored CRC still answers true after the file's contents were replaced.
C2_Witness ==
    /\ last.fn.kind = "Checksum"
    /\ last.crc_hit
    /\ last.result = Ok(TRUE)
    /\ is_file(resolve_path(last.fn.path))
    /\ crc32(node(resolve_path(last.fn.path)).content) # last.fn.crc

\* What a Checksum gives when it is worked out from the file.
ChecksumFromFile(f) ==
    LET path == resolve_path(f.path)
    IN  IF ~is_file(path) THEN Ok(FALSE)
        ELSE IF ~file_read_ok(path) THEN Err(IoError(f.path))
        ELSE Ok(crc32(node(path).content) = f.crc)

\* C3: a write that finds its lock poisoned leaves the cache holding exactly
\* its own entry and the lock clean, and the call returns the result it
\* computed, not an error; for the condition cache and for the crc cache.
C3_PoisonedWriteResets ==
    [][IsCall =>
        /\ (condition_poisoned /\ last'.cache_wrote =>
               /\ last'.result.ok
               /\ last'.result = match_self(last'.fn).result
               /\ condition_cache' = (last'.fn :> last'.result.val)
               /\ ~condition_poisoned')
        /\ (crc_poisoned /\ last'.crc_wrote =>
               /\ last'.result = ChecksumFromFile(last'.fn)
               /\ last'.result.ok
               /\ crc_cache' = (lowercase(last'.fn.path) :>
                                    crc32(node(resolve_path(last'.fn.path)).content))
               /\ ~crc_poisoned')]_vars

\* The poisoned write has discarded the entry of an earlier call.
C3_Witness ==
    /\ last.fn.kind # "None"
    /\ last.poison_before
    /\ last.cache_wrote
    /\ DOMAIN condition_cache = {last.fn}
    /\ ~condition_poisoned
    /\ \E g \in DOMAIN ever_returned : g # last.fn

\* C4: a read that finds its lock poisoned is a miss: the call works the
\* result out from the filesystem and returns it, never the poison.
C4_PoisonedReadIsMiss ==
    [][IsCall =>
        /\ (is_slow(last'.fn) /\ condition_poisoned =>
               /\ ~last'.cache_hit
               /\ last'.computed
               /\ last'.result = match_self(last'.fn).result)
        /\ (last'.fn.kind = "Checksum" /\ crc_poisoned =>
               /\ ~last'.crc_hit
               /\ last'.result = ChecksumFromFile(last'.fn))]_vars

\* The call under poison returned the other value than the one cached.
C4_Witness ==
    /\ last.fn.kind # "None"
    /\ last.poison_before
    /\ last.computed
    /\ last.fn \in DOMAIN ever_returned
    /\ last.result.ok
    /\ last.result.val # ever_returned[last.fn]

\* C5 as stated: no key ever leaves either cache.
C5_Original ==
    [][/\ DOMAIN condition_cache \subseteq DOMAIN condition_cache'
       /\ DOMAIN crc_cache \subseteq DOMAIN crc_cache']_vars

\* C5, amended: a key leaves a cache only when a write of a call finds that
\* cache's lock poisoned; otherwise the caches only grow.
C5_KeysLeaveOnlyAtPoisonedWrite ==
    [][/\ (DOMAIN condition_cache \subseteq DOMAIN condition_cache'
              \/ (IsCall /\ condition_poisoned /\ last'.cache_wrote))
       /\ (DOMAIN crc_cache \subseteq DOMAIN crc_cache'
              \/ (IsCall /\ crc_poisoned /\ last'.crc_wrote))]_vars

\* Two calls have left two keys.
C5_Witness ==
    /\ Cardinality(DOMAIN condition_cache) = 2
    /\ calls = 2
    /\ last.cache_wrote

\* C6: no key of the condition cache is an ActivePath, ActiveRegex,
\* ManyActive or Checksum; a call of one of these neither reads nor writes the
\* condition cache; a call of any other kind reads it first, runs the match
\* only on a miss, and writes the result when the match gave Ok.
C6_OnlySlowKindsCached ==
    [][/\ \A k \in DOMAIN condition_cache' :
              k.kind \notin {"ActivePath", "ActiveRegex", "ManyActive", "Checksum"}
       /\ IsCall =>
              IF last'.fn.kind \in {"ActivePath", "ActiveRegex", "ManyActive", "Checksum"}
              THEN /\ ~last'.cache_read
                   /\ ~last'.cache_wrote
                   /\ last'.computed
                   /\ condition_cache' = condition_cache
                   /\ condition_poisoned' = condition_poisoned
              ELSE /\ last'.cache_read
                   /\ last'.computed = ~last'.cache_hit
                   /\ last'.cache_wrote = (last'.computed /\ last'.result.ok)
                   /\ last'.cache_wrote =>
                          /\ last'.fn \in DOMAIN condition_cache'
                          /\ condition_cache'[last'.fn] = last'.result.val]_vars

\* A Checksum was computed beside a cached result and left the cache alone.
C6_Witness ==
    /\ last.fn.kind = "Checksum"
    /\ last.computed
    /\ last.result.ok
    /\ ~last.cache_wrote
    /\ condition_cache # EmptyMap
    /\ \A k \in DOMAIN condition_cache : k.kind # "Checksum"

\* C11 as stated: a Checksum whose path resolves to nothing or to something
\* that is not a regular file returns Ok(false), whatever the caches hold.
C11_Original ==
    [][(/\ IsCall
        /\ last'.fn.kind = "Checksum"
        /\ ~is_file(resolve_path(last'.fn.path)))
           => last'.result = Ok(FALSE)]_vars

\* C11, amended: a Checksum whose path resolves to nothing or to something
\* that is not a regular file returns Ok(false), for every expected crc,
\* unless a CRC stored for the path can be read from the crc cache; then the
\* stored CRC answers. Without a stored CRC the call opens no file and writes
\* nothing.
C11_ChecksumOfNonFile ==
    [][(/\ IsCall
        /\ last'.fn.kind = "Checksum"
        /\ ~is_file(resolve_path(last'.fn.path)))
           => IF ~crc_poisoned /\ lowercase(last'.fn.path) \in DOMAIN crc_cache
              THEN last'.result = Ok(crc_cache[lowercase(last'.fn.path)] = last'.fn.crc)
              ELSE /\ last'.result = Ok(FALSE)
                   /\ ~last'.file_read
                   /\ ~last'.crc_wrote
                   /\ crc_cache' = crc_cache]_vars

\* A Checksum of a directory gave false.
C11_Witness ==
    /\ last.fn.kind = "Checksum"
    /\ node(resolve_path(last.fn.path)).kind = "dir"
    /\ crc_cache = EmptyMap
    /\ last.computed
    /\ last.result = Ok(FALSE)

-----------------------------------------------------------------------------
(* Properties of the overlay enumeration (checked under SpecOverlay) *)

IsOverlayCall == last.fn.kind \in {"FileRegex", "Many"}

IsPrefix(s, t) == Len(s) <= Len(t) /\ \A i \in DOMAIN s : s[i] = t[i]

\* The joined base directories in the order the overlay is to visit them,
\* position by position.
OverlayOrder ==
    LET n == Len(additional_data_paths)
    IN  [i \in 1..(n + 1) |->
            Join(IF i = n + 1 THEN data_path
                 ELSE IF game_type = "OpenMW" THEN additional_data_paths[n + 1 - i]
                 ELSE additional_data_paths[i],
                 DirData)]

EveryDirListable == \A d \in DOMAIN dirs : dirs[d].ok
EveryEntryReadable == \A d \in DOMAIN dirs : \A k \in DOMAIN dirs[d].items : dirs[d].items[k].ok

\* C7: the base directories are listed in the order A, B, P (B, A, P for
\* OpenMW): the read_dir calls of an enumeration are an initial part of that
\* order, and all of it when every directory can be listed, every entry can be
\* read and the closure never returns true; the data path comes last.
C7_OverlayOrder ==
    IsOverlayCall =>
        /\ IsPrefix(last.listed, OverlayOrder)
        /\ (EveryDirListable /\ EveryEntryReadable /\ last.result = Ok(FALSE)
                => last.listed = OverlayOrder)
        /\ \A i \in DOMAIN last.listed :
               last.listed[i] = Join(data_path, DirData) => i = Len(additional_data_paths) + 1

C7_Witness ==
    /\ game_type = "OpenMW"
    /\ additional_data_paths = <<"A", "B">>
    /\ IsOverlayCall
    /\ last.listed = <<Join("B", DirData), Join("A", DirData), Join("P", DirData)>>
    /\ last.visited # <<>>

\* C8: a directory that cannot be listed ends the enumeration with Ok(false):
\* it is the last directory listed, whatever was visited before it.
C8_FailFast ==
    IsOverlayCall =>
        \A i \in DOMAIN last.listed :
            ~dirs[last.listed[i]].ok => i = Len(last.listed) /\ last.result = Ok(FALSE)

C8_Witness ==
    /\ last.fn = Many(DirData, {NameAEsp})
    /\ additional_data_paths = <<"A", "B">>
    /\ last.listed = <<Join("A", DirData), Join("B", DirData)>>
    /\ dirs[Join("B", DirData)].error = "NotFound"
    /\ Len(last.visited) = 1
    /\ dirs[Join("P", DirData)] = ReadDirOk(<<DirEntry(NameAEsp)>>)
    /\ last.result = Ok(FALSE)

\* The entries an enumeration can reach, as positions <<base index, entry
\* index>>: those of the base directories before the first one that cannot be
\* listed. Positions are ordered base by base, entry by entry.
FirstUnlistable ==
    LET bad == {i \in DOMAIN OverlayOrder : ~dirs[OverlayOrder[i]].ok}
    IN  IF bad = {} THEN Len(OverlayOrder) + 1
        ELSE CHOOSE i \in bad : \A j \in bad : i <= j
Reachable ==
    UNION {{<<i, k>> : k \in DOMAIN dirs[OverlayOrder[i]].items} : i \in 1..(FirstUnlistable - 1)}
ItemAt(p) == dirs[OverlayOrder[p[1]]].items[p[2]]
Before(p, q) == p[1] < q[1] \/ (p[1] = q[1] /\ p[2] < q[2])
NameMatches(regex, name) == normalise_file_name(game_type, name) \in regex
Unreadable == {p \in Reachable : ~ItemAt(p).ok}
\* The matching entries met before any entry that cannot be read.
Matched(regex) ==
    {p \in Reachable : /\ ItemAt(p).ok
                       /\ NameMatches(regex, ItemAt(p).file_name)
                       /\ \A e \in Unreadable : Before(p, e)}
FirstUnreadableDir ==
    OverlayOrder[(CHOOSE e \in Unreadable : \A o \in Unreadable : e = o \/ Before(e, o))[1]]

\* Every entry of the directory under every configured base path.
AllEntries == UNION {{<<d, k>> : k \in DOMAIN dirs[d].items} : d \in DOMAIN dirs}
AllMatches(regex) ==
    {p \in AllEntries : /\ dirs[p[1]].items[p[2]].ok
                        /\ NameMatches(regex, dirs[p[1]].items[p[2]].file_name)}

\* C9 as stated, where every entry can be read: FileRegex is true iff an
\* entry of the directory under some configured base path matches, and false
\* otherwise.
C9_Original ==
    last.fn.kind = "FileRegex" /\ EveryEntryReadable =>
        last.result = Ok(AllMatches(last.fn.regex) # {})

\* C9, amended: FileRegex is true iff an entry matches among those the
\* enumeration reaches (the base directories in overlay order before the
\* first that cannot be listed, up to the first entry that cannot be read);
\* without such a match it is that entry's error, or false if there is none.
C9_FileRegexOverReachable ==
    last.fn.kind = "FileRegex" =>
        last.result = IF Matched(last.fn.regex) # {} THEN Ok(TRUE)
                      ELSE IF Unreadable # {} THEN Err(IoError(FirstUnreadableDir))
                      ELSE Ok(FALSE)

\* The only match lies under the data path, behind a ghosted name.
C9_Witness ==
    /\ last.fn = FileRegex(DirData, {NameAEsp})
    /\ additional_data_paths = <<"A">>
    /\ dirs[Join("A", DirData)] = ReadDirOk(<<>>)
    /\ dirs[Join("P", DirData)] = ReadDirOk(<<DirEntry(NameAEspGhost)>>)
    /\ last.result = Ok(TRUE)

\* C10 as stated, where every entry can be read: Many is true iff two or more
\* entries match over the listings under all base paths, and false otherwise.
C10_Original ==
    last.fn.kind = "Many" /\ EveryEntryReadable =>
        last.result = Ok(Cardinality(AllMatches(last.fn.regex)) >= 2)

\* C10, amended: Many is true iff two or more entries match among those the
\* enumeration reaches, counted across the base directories; with fewer it is
\* the error of the first entry that cannot be read, or false if there is none.
C10_ManyOverReachable ==
    last.fn.kind = "Many" =>
        last.result = IF Cardinality(Matched(last.fn.regex)) >= 2 THEN Ok(TRUE)
                      ELSE IF Unreadable # {} THEN Err(IoError(FirstUnreadableDir))
                      ELSE Ok(FALSE)

\* One match under an additional path and one under the data path.
C10_Witness ==
    /\ last.fn = Many(DirData, {NameAEsp})
    /\ additional_data_paths = <<"A">>
    /\ dirs[Join("A", DirData)] = ReadDirOk(<<DirEntry(NameAEsp)>>)
    /\ dirs[Join("P", DirData)] = ReadDirOk(<<DirEntry(NameAEsp)>>)
    /\ last.result = Ok(TRUE)

\* The closure has returned true at an entry met before any unreadable one.
ClosureSatisfied ==
    IF last.fn.kind = "Many" THEN Cardinality(Matched(last.fn.regex)) >= 2
    ELSE Matched(last.fn.regex) # {}

FirstUnreadable == CHOOSE e \in Unreadable : \A o \in Unreadable : e = o \/ Before(e, o)

\* C14: an entry that cannot be read, met before the closure returned true,
\* makes the call return the I/O error with the joined path of the directory
\* being listed; the entries visited are exactly those before it and no later
\* base directory is listed. A call returns an error in no other case.
C14_IterationErrorPropagates ==
    IsOverlayCall =>
        /\ (Unreadable # {} /\ ~ClosureSatisfied =>
               /\ last.result = Err(IoError(OverlayOrder[FirstUnreadable[1]]))
               /\ last.listed = SubSeq(OverlayOrder, 1, FirstUnreadable[1])
               /\ Len(last.visited) =
                      Cardinality({p \in Reachable : Before(p, FirstUnreadable)}))
        /\ (~last.result.ok => Unreadable # {} /\ ~ClosureSatisfied)

\* One match, then an unreadable entry under the additional path, while the
\* data path holds entries that are never listed.
C14_Witness ==
    /\ last.fn = Many(DirData, {NameAEsp})
    /\ additional_data_paths = <<"A">>
    /\ dirs[Join("A", DirData)] = ReadDirOk(<<DirEntry(NameAEsp), EntryError>>)
    /\ dirs[Join("P", DirData)] = ReadDirOk(<<DirEntry(NameAEsp)>>)
    /\ last.result = Err(IoError(Join("A", DirData)))
    /\ last.listed = <<Join("A", DirData)>>
    /\ Len(last.visited) = 1

-----------------------------------------------------------------------------
(* The early stop of the overlay enumeration (checked under SpecOverlay) *)

\* What the closure of the call returns for the k-th entry handed to it:
\* for FileRegex whether the name matches, for Many whether the name matches
\* and an earlier entry did.
VisitorTrue(k) ==
    /\ NameMatches(last.fn.regex, last.visited[k][2])
    /\ last.fn.kind = "Many" =>
           \E j \in 1..(k - 1) : NameMatches(last.fn.regex, last.visited[j][2])

\* The entries of the base directories from the i-th on, in overlay order.
RECURSIVE EntriesFrom(_)
EntriesFrom(i) ==
    IF i > Len(OverlayOrder) THEN <<>>
    ELSE [k \in DOMAIN dirs[OverlayOrder[i]].items |->
              <<OverlayOrder[i], dirs[OverlayOrder[i]].items[k].file_name>>]
         \o EntriesFrom(i + 1)

\* The last directory listed could not be listed.
ListingFailed == last.listed # <<>> /\ ~dirs[last.listed[Len(last.listed)]].ok

\* C25: the entry for which the closure returns true is the last one handed
\* to it, the result is then Ok(true) and the directory of that entry is the
\* last one listed; Ok(true) is returned in no other way; and Ok(false) is
\* returned only with the closure having returned false for every entry
\* handed to it, these being all entries of all base directories in overlay
\* order unless a directory could not be listed.
C25_EarlyStop ==
    IsOverlayCall =>
        /\ \A k \in DOMAIN last.visited :
               VisitorTrue(k) => /\ k = Len(last.visited)
                                 /\ last.result = Ok(TRUE)
                                 /\ last.listed[Len(last.listed)] = last.visited[k][1]
        /\ last.result = Ok(TRUE) =>
               last.visited # <<>> /\ VisitorTrue(Len(last.visited))
        /\ last.result = Ok(FALSE) =>
               /\ \A k \in DOMAIN last.visited : ~VisitorTrue(k)
               /\ \/ ListingFailed
                  \/ /\ EveryEntryReadable
                     /\ last.listed = OverlayOrder
                     /\ last.visited = EntriesFrom(1)

\* The first of two entries matched: the second was not visited and the
\* data path was not listed.
C25_Witness ==
    /\ last.fn.kind = "FileRegex"
    /\ last.result = Ok(TRUE)
    /\ additional_data_paths = <<"A">>
    /\ last.listed = <<Join("A", DirData)>>
    /\ Len(dirs[Join("A", DirData)].items) = 2
    /\ Len(last.visited) = 1
    /\ dirs[Join("P", DirData)].ok

-----------------------------------------------------------------------------
(* Properties of Version (checked under SpecVersion) *)

IsParse == last.fn.kind = "Version::from"
IsCompare == last.fn.kind = "Version::partial_cmp"

\* long is short followed by numeric zeros only.
ZeroExtends(short, long) ==
    /\ Len(short) <= Len(long)
    /\ \A i \in DOMAIN long : long[i] = IF i <= Len(short) THEN short[i] ELSE Numeric(Zero)

\* C16: a version whose release identifiers are those of another followed by
\* any number of numeric zeros, with the same pre-release identifiers, is
\* equal to it and neither orders below the other; versions whose pre-release
\* sequences differ in length are never equal.
C16_ReleasePaddedPreReleaseNot ==
    IsCompare =>
        /\ (/\ ZeroExtends(last.self.release_ids, last.other.release_ids)
            /\ last.self.pre_release_ids = last.other.pre_release_ids)
               => (last.eq /\ last.ordering = Equal /\ last.reverse = Equal)
        /\ Len(last.self.pre_release_ids) # Len(last.other.pre_release_ids)
               => (~last.eq /\ last.ordering # Equal /\ last.reverse # Equal)

\* "1" against "1.0"
C16_Witness ==
    /\ IsCompare
    /\ last.a = <<49>>
    /\ last.b = <<49, 46, 48>>
    /\ Len(last.other.release_ids) = Len(last.self.release_ids) + 1
    /\ last.eq

RECURSIVE DecimalValue(_)
DecimalValue(digits) ==
    IF digits = <<>> THEN 0
    ELSE 10 * DecimalValue(SubSeq(digits, 1, Len(digits) - 1)) + (digits[Len(digits)] - 48)

\* s comes before t in the dictionary.
TextBefore(s, t) ==
    \E k \in 0..Len(s) :
        /\ k <= Len(t)
        /\ \A i \in 1..k : s[i] = t[i]
        /\ \/ (k = Len(s) /\ k < Len(t))
           \/ (k < Len(s) /\ k < Len(t) /\ s[k + 1] < t[k + 1])

\* x orders below y as the claim has it.
IdentifierBelow(x, y) ==
    IF x.kind # y.kind THEN x.kind = "Numeric"
    ELSE IF x.kind = "Numeric" THEN DecimalValue(x.value) < DecimalValue(y.value)
    ELSE TextBefore(x.value, y.value)

PaddedTo(ids, n) == [k \in 1..n |-> IF k <= Len(ids) THEN ids[k] ELSE Numeric(Zero)]

\* The ordering that the first differing position of two sequences gives, if
\* there is one within the length of both.
DecidedAt(ids1, ids2, ordering) ==
    LET n == IF Len(ids1) < Len(ids2) THEN Len(ids1) ELSE Len(ids2)
        differ == {i \in 1..n : ids1[i] # ids2[i]}
    IN  differ # {} =>
            LET i == CHOOSE d \in differ : \A e \in differ : d <= e
            IN  /\ (ordering = Less) = IdentifierBelow(ids1[i], ids2[i])
                /\ (ordering = Greater) = IdentifierBelow(ids2[i], ids1[i])

\* C17: the first position at which two versions differ decides their order:
\* a numeric identifier is below a text one, also when the numeric one is a
\* padded zero; two numeric ones order by value, two text ones as in the
\* dictionary; and text identifiers hold their text in lower case.
C17_NumericBelowText ==
    /\ IsCompare =>
           LET n == IF Len(last.self.release_ids) < Len(last.other.release_ids)
                    THEN Len(last.other.release_ids) ELSE Len(last.self.release_ids)
               r1 == PaddedTo(last.self.release_ids, n)
               r2 == PaddedTo(last.other.release_ids, n)
           IN  /\ DecidedAt(r1, r2, last.ordering)
               /\ r1 = r2 => DecidedAt(last.self.pre_release_ids,
                                       last.other.pre_release_ids, last.ordering)
    /\ IsParse =>
           \A id \in Range(last.version.release_ids) \cup Range(last.version.pre_release_ids) :
               id.kind = "NonNumeric" => \A i \in DOMAIN id.value : ~(id.value[i] \in 65..90)

\* "1" against "1.a": the padded zero is below the text.
C17_Witness ==
    /\ IsCompare
    /\ last.a = <<49>>
    /\ last.b = <<49, 46, 97>>
    /\ last.ordering = Less
    /\ last.reverse = Greater

\* The versions a third operand is drawn from.
ThirdVersions == {Version_from(s) : s \in Strings(CompareChars, 2)}

\* C18: of a < b, a == b, a > b exactly one holds; == holds exactly when the
\* comparison gives Equal; a < b exactly when b > a; and a < b, b < c give
\* a < c.
C18_TotalOrder ==
    IsCompare =>
        /\ \/ (last.ordering = Less /\ ~last.eq)
           \/ (last.ordering = Greater /\ ~last.eq)
           \/ (last.ordering = Equal /\ last.eq)
        /\ (last.ordering = Less) = (last.reverse = Greater)
        /\ (last.ordering = Greater) = (last.reverse = Less)
        /\ last.ordering = Less =>
               \A c \in ThirdVersions :
                   Version_partial_cmp(last.other, c) = Less
                       => Version_partial_cmp(last.self, c) = Less

\* "" < "0.1" < "1"
C18_Witness ==
    /\ IsCompare
    /\ last.a = <<>>
    /\ last.b = <<48, 46, 49>>
    /\ last.ordering = Less
    /\ Version_partial_cmp(last.other, Version_from(<<49>>)) = Less

\* C19 as stated: a string that is empty, or empty once its metadata is
\* taken off, parses to a version equal to "0" and below "1".
C19_EmptyAfterMetadataIsZero ==
    IsParse /\ (last.string = <<>> \/ last.string[1] = 43) =>
        /\ Version_eq(last.version, Version_from(Zero))
        /\ Version_partial_cmp(last.version, Version_from(<<49>>)) = Less

IdentifiersOf(pieces) == [k \in DOMAIN pieces |-> Identifier_from(pieces[k])]

\* C20 as stated: with a first separator in the string (metadata taken off),
\* the release identifiers are those of the text before it and the
\* pre-release identifiers those of the text after it, none if it is the last
\* character.
C20_SplitAtFirstSeparator ==
    IsParse =>
        LET trimmed == trim_metadata(last.string)
            i == find(trimmed, Pattern_is_separator)
        IN  i.some =>
                /\ last.version.release_ids =
                       IdentifiersOf(split(SubSeq(trimmed, 1, i.val - 1), Pattern_char(46)))
                /\ last.version.pre_release_ids =
                       IdentifiersOf(split_terminator(SubSeq(trimmed, i.val + 1, Len(trimmed)),
                                                      Pattern_is_pre_release_separator))

-----------------------------------------------------------------------------
(* Properties of the version predicates (checked under SpecVersionEval) *)

IsVersionCall == last.fn.kind \in {"Version", "ProductVersion"}

\* The path the call resolved, and what is known of it.
Resolved == resolve_path(last.fn.path)
Overridden(path) == to_lowercase(path[2]) \in DOMAIN plugin_versions
IsPlugin(path) == has_plugin_file_extension(game_type, path[2])

AbsentPolicy(comparator) == comparator \in {"NotEqual", "LessThan", "LessThanOrEqual"}

PathMissing == ~exists(Resolved)
NotRegularFile == exists(Resolved) /\ ~is_file(Resolved)
PluginWithoutOverride ==
    /\ last.fn.kind = "Version"
    /\ is_file(Resolved)
    /\ IsPlugin(Resolved)
    /\ ~Overridden(Resolved)

\* A readable executable whose version resource lacks what the predicate
\* asks for: the fixed record (Version, when the reader is the source) or
\* the product version (ProductVersion).
ExecutableWithoutResource ==
    /\ is_file(Resolved)
    /\ node(Resolved).readable
    /\ LET version_info == get_pe_version_info(node(Resolved).content)
       IN  /\ version_info.ok
           /\ IF last.fn.kind = "Version"
              THEN ~IsPlugin(Resolved) /\ ~Overridden(Resolved) /\ ~version_info.val.fixed.some
              ELSE ~version_info.val.product_version.some

\* C12 as stated: in each of the four cases the result follows the policy.
C12_Original ==
    (/\ IsVersionCall
     /\ PathMissing \/ NotRegularFile \/ PluginWithoutOverride \/ ExecutableWithoutResource)
        => last.result = Ok(AbsentPolicy(last.fn.comparator))

\* C12: for a path that is missing or not a regular file, for a plugin
\* without an override and for a ProductVersion on an executable without a
\* product version, the result is true for NotEqual, LessThan and
\* LessThanOrEqual and false for the other comparators, whatever the given
\* version; a Version on an executable without the fixed record is compared
\* as version "0".
C12_AbsentVersionPolicy ==
    /\ (/\ IsVersionCall
        /\ \/ PathMissing
           \/ NotRegularFile
           \/ PluginWithoutOverride
           \/ (ExecutableWithoutResource /\ last.fn.kind = "ProductVersion"))
           => last.result = Ok(AbsentPolicy(last.fn.comparator))
    /\ (IsVersionCall /\ ExecutableWithoutResource /\ last.fn.kind = "Version")
           => last.result =
                  Ok(compare_versions(Version_from(Zero), last.fn.comparator, last.fn.version))

\* A plugin without an override, asked whether its version is at most "1".
C12_Witness ==
    /\ IsVersionCall
    /\ PluginWithoutOverride
    /\ last.computed
    /\ last.fn.comparator = "LessThanOrEqual"
    /\ last.fn.version = <<49>>
    /\ last.result = Ok(TRUE)

IsGetVersion == last.fn.kind = "get_version"

\* C13 as stated: the override, then the plugin extension, for every path.
C13_Original ==
    IsGetVersion =>
        LET path == last.file_path
            key == to_lowercase(path[2])
        IN  /\ Overridden(path) => last.result = Ok(Some(Version_from(plugin_versions[key])))
            /\ (~Overridden(path) /\ IsPlugin(path)) => last.result = Ok(None)
            /\ (Overridden(path) \/ IsPlugin(path)) => ~last.reader

\* C13: for a path that is a regular file, the actual version is the
\* override for its lowercased file name if there is one, else absent if the
\* path has a plugin extension, else what the reader of the file version
\* gives; the reader is not called for a path with an override or a plugin
\* extension; a path that is not a regular file has no version and the
\* reader is not called. A Version predicate on a file with an override
\* compares the override.
C13_SourcePrecedence ==
    /\ IsGetVersion =>
           LET path == last.file_path
               key == to_lowercase(path[2])
               read == read_file_version(path)
           IN  /\ (Overridden(path) \/ IsPlugin(path)) => ~last.reader
               /\ ~is_file(path) => (last.result = Ok(None) /\ ~last.reader)
               /\ is_file(path) =>
                      /\ Overridden(path)
                             => last.result = Ok(Some(Version_from(plugin_versions[key])))
                      /\ (~Overridden(path) /\ IsPlugin(path)) => last.result = Ok(None)
                      /\ (~Overridden(path) /\ ~IsPlugin(path)) =>
                             /\ last.reader
                             /\ last.result = IF read.ok THEN Ok(Some(read.val)) ELSE read
                             /\ node(path) = RegularFile("loot.dll", TRUE) =>
                                    last.result = Ok(Some(Version_from(
                                        <<48, 46, 49, 56, 46, 50, 46, 48>>)))
    /\ (last.fn.kind = "Version" /\ is_file(Resolved) /\ Overridden(Resolved)) =>
           last.result =
               Ok(compare_versions(Version_from(plugin_versions[to_lowercase(Resolved[2])]),
                                   last.fn.comparator, last.fn.version))

\* An executable with a file version of its own and an override: the
\* override is the version, the reader is not called.
C13_Witness ==
    /\ IsGetVersion
    /\ last.path = NameLootDll
    /\ node(last.file_path) = RegularFile("loot.dll", TRUE)
    /\ Overridden(last.file_path)
    /\ last.result = Ok(Some(Version_from(<<49>>)))
    /\ ~last.reader

-----------------------------------------------------------------------------
(* Properties of FilenameVersion (checked under SpecFilenameVersion) *)

IsFilenameVersion == last.fn.kind = "FilenameVersion"

\* The entry's normalised name matches, the group took part, and the text
\* it captured satisfies the comparator against the given version.
Satisfies(f, name) ==
    LET s == normalise_file_name(game_type, name)
    IN  /\ s \in DOMAIN f.regex
        /\ f.regex[s].some
        /\ compare_versions(Version_from(f.regex[s].val), f.comparator, f.version)

\* The satisfying entries met before any entry that cannot be read.
Satisfying(f) ==
    {p \in Reachable : /\ ItemAt(p).ok
                       /\ Satisfies(f, ItemAt(p).file_name)
                       /\ \A e \in Unreadable : Before(p, e)}

\* The entries up to the first satisfying one.
Scan(f) ==
    {p \in Reachable : /\ ItemAt(p).ok
                       /\ \A e \in Unreadable : Before(p, e)
                       /\ \A q \in Satisfying(f) : ~Before(q, p)}

\* C15: FilenameVersion hands the closure the entries in overlay order up to
\* the first one that satisfies (name matches, group took part, captured
\* version satisfies the comparator) and is true there; an entry that matches
\* without the group, or whose version does not satisfy, is passed over; with
\* no satisfying entry the result is false for every comparator (the error of
\* an entry that cannot be read, if the scan meets one).
C15_FilenameVersionScan ==
    IsFilenameVersion =>
        /\ last.result = IF Satisfying(last.fn) # {} THEN Ok(TRUE)
                         ELSE IF Unreadable # {} THEN Err(IoError(FirstUnreadableDir))
                         ELSE Ok(FALSE)
        /\ Len(last.visited) = Cardinality(Scan(last.fn))
        /\ \A p \in Scan(last.fn) :
               <<OverlayOrder[p[1]], ItemAt(p).file_name>> \in Range(last.visited)
        /\ (last.result = Ok(TRUE)) =>
               Satisfies(last.fn, last.visited[Len(last.visited)][2])

\* OpenMW: the first entry matches without the group, the second captures
\* "a", which is below "b".
C15_Witness ==
    /\ IsFilenameVersion
    /\ game_type = "OpenMW"
    /\ additional_data_paths = <<>>
    /\ dirs[Join("P", DirData)] = ReadDirOk(<<DirEntry(NameAEsp), DirEntry(NameAEspGhost)>>)
    /\ last.fn.regex = (NameAEsp :> None) @@ (NameAEspGhost :> Some(<<97>>))
    /\ last.fn.comparator = "LessThan"
    /\ last.fn.version = <<98>>
    /\ Len(last.visited) = 2
    /\ last.result = Ok(TRUE)

-----------------------------------------------------------------------------
(* The pre-release identifiers (checked under SpecVersion) *)

\* The release identifiers of the two versions compared, padded, are equal.
SameRelease ==
    LET n == IF Len(last.self.release_ids) < Len(last.other.release_ids)
             THEN Len(last.other.release_ids) ELSE Len(last.self.release_ids)
    IN  PaddedTo(last.self.release_ids, n) = PaddedTo(last.other.release_ids, n)

\* The sequences agree at every position both have.
AgreeOnCommonLength(ids1, ids2) ==
    \A i \in DOMAIN ids1 \cap DOMAIN ids2 : ids1[i] = ids2[i]

\* C22: with equal padded release identifiers the pre-release identifiers
\* decide: the first position at which both sequences have an identifier and
\* these differ gives the order; if there is none the shorter sequence is
\* the lower one, so that a version without pre-release identifiers is below
\* every version of the same release that has one.
C22_ShorterPreReleaseIsLower ==
    IsCompare /\ SameRelease =>
        LET p1 == last.self.pre_release_ids
            p2 == last.other.pre_release_ids
        IN  /\ DecidedAt(p1, p2, last.ordering)
            /\ AgreeOnCommonLength(p1, p2) =>
                   /\ (last.ordering = Less) = (Len(p1) < Len(p2))
                   /\ (last.ordering = Greater) = (Len(p1) > Len(p2))
                   /\ (last.reverse = Greater) = (Len(p1) < Len(p2))
            /\ p1 = <<>> /\ p2 # <<>> => last.ordering = Less /\ last.reverse = Greater

\* "0.0.5-5" against "0.0.5-5.0"
C22_Witness ==
    /\ IsCompare
    /\ last.a = <<48, 46, 48, 46, 53, 45, 53>>
    /\ last.b = <<48, 46, 48, 46, 53, 45, 53, 46, 48>>
    /\ SameRelease
    /\ last.self.pre_release_ids = <<Numeric(<<53>>)>>
    /\ last.other.pre_release_ids = <<Numeric(<<53>>), Numeric(Zero)>>
    /\ last.ordering = Less

-----------------------------------------------------------------------------
(* Properties of Identifier (checked under SpecIdentifier) *)

IsIdentifierParse == last.fn.kind = "Identifier::from"
IsIdentifierCompare == last.fn.kind = "Identifier::partial_cmp"

AllDigits(string) == string # <<>> /\ \A i \in DOMAIN string : is_digit(string[i])

\* The significant digits of a numeral: those from its first non-zero digit.
Significant(string) ==
    IF \A i \in DOMAIN string : string[i] = 48 THEN <<>>
    ELSE SubSeq(string, CHOOSE i \in DOMAIN string :
                            string[i] # 48 /\ \A j \in 1..(i - 1) : string[j] = 48,
                Len(string))

\* The value of numeral s is below that of numeral t: fewer significant
\* digits, or as many with a smaller digit at the first difference.
ValueBelow(s, t) ==
    LET x == Significant(s)
        y == Significant(t)
    IN  \/ Len(x) < Len(y)
        \/ /\ Len(x) = Len(y)
           /\ \E k \in DOMAIN x : x[k] < y[k] /\ \A i \in 1..(k - 1) : x[i] = y[i]

\* C21 as stated: an identifier whose text is all decimal digits, of any
\* length and value, is numeric; two such identifiers are equal exactly when
\* their values are and order by value; and such an identifier orders below
\* every identifier that is text.
C21_AllDigitsIsNumeric ==
    /\ IsIdentifierParse /\ AllDigits(last.string)
           => last.identifier.kind = "Numeric"
    /\ IsIdentifierCompare /\ AllDigits(last.a) /\ AllDigits(last.b)
           => /\ last.eq = (Significant(last.a) = Significant(last.b))
              /\ (last.ordering = Less) = ValueBelow(last.a, last.b)
              /\ (last.ordering = Greater) = ValueBelow(last.b, last.a)
    /\ IsIdentifierCompare /\ AllDigits(last.a) /\ ~AllDigits(last.b) /\ last.other.kind = "NonNumeric"
           => last.ordering = Less

-----------------------------------------------------------------------------
(* Properties of concurrent calls (checked under SpecThreads) *)

IsStep(name) == last.fn.kind # "None" /\ last.step = name

\* The thread takes a step that leaves the statement.
Leaves(t, pc) == threads[t].pc = pc /\ threads'[t].pc # pc

\* C23 as stated: once a key is present in a cache its value never changes.
C23_Original ==
    [][/\ \A k \in DOMAIN condition_cache :
              k \in DOMAIN condition_cache' /\ condition_cache'[k] = condition_cache[k]
       /\ \A k \in DOMAIN crc_cache :
              k \in DOMAIN crc_cache' /\ crc_cache'[k] = crc_cache[k]]_vars

\* C23: with no poison event a key never leaves a cache; the value of a key
\* that is present changes only by the insert of a thread that evaluates
\* this key, to the value that thread computed; and a thread whose lookup
\* finds the key returns what is stored and goes on to no write.
C23_ReplacedOnlyByRacingWriter ==
    [][/\ \A k \in DOMAIN condition_cache :
              /\ k \in DOMAIN condition_cache'
              /\ condition_cache'[k] # condition_cache[k] =>
                     \E t \in Threads :
                         /\ Leaves(t, "writer.insert")
                         /\ threads[t].fn = k
                         /\ condition_cache'[k] = threads[t].result.val
       /\ \A k \in DOMAIN crc_cache :
              /\ k \in DOMAIN crc_cache'
              /\ crc_cache'[k] # crc_cache[k] =>
                     \E t \in Threads :
                         /\ Leaves(t, "crc writer.insert")
                         /\ lowercase(threads[t].fn.path) = k
                         /\ crc_cache'[k] = threads[t].calculated_crc
       /\ \A t \in Threads :
              /\ Leaves(t, "reader.get") /\ threads[t].fn \in DOMAIN condition_cache
                     => /\ threads'[t].pc = "return"
                        /\ threads'[t].result = Ok(condition_cache[threads[t].fn])
              /\ Leaves(t, "crc reader.get") /\ lowercase(threads[t].fn.path) \in DOMAIN crc_cache
                     => /\ threads'[t].pc = "return"
                        /\ threads'[t].result =
                               Ok(crc_cache[lowercase(threads[t].fn.path)] = threads[t].fn.crc)
      ]_vars

\* A second writer has just replaced the stored result by a different one.
C23_Witness ==
    /\ IsStep("writer.insert")
    /\ last.before.some
    /\ last.before.val # last.value
    /\ condition_cache[last.key] = last.value
    /\ crc_poisoned = FALSE /\ condition_poisoned = FALSE

-----------------------------------------------------------------------------
(* The keys of the crc cache (checked under SpecChecksum) *)

\* C24: every key of the crc cache is a lowercased path; and a Checksum call
\* whose path, lowercased, is a key of the cache (stored by an earlier call
\* for a path that may differ in letter case, with any expected crc) returns
\* the comparison of the stored CRC with its own expected crc, reads no file
\* and leaves the cache as it is, unless the lock has been poisoned since.
C24_KeyedByLowercasedPath ==
    [][/\ \A key \in DOMAIN crc_cache' : key = to_lowercase(key)
       /\ (/\ IsCall
           /\ last'.fn.kind = "Checksum"
           /\ to_lowercase(last'.fn.path) \in DOMAIN crc_cache
           /\ ~crc_poisoned)
              => /\ last'.result = Ok(crc_cache[to_lowercase(last'.fn.path)] = last'.fn.crc)
                 /\ last'.crc_hit
                 /\ ~last'.file_read
                 /\ crc_cache' = crc_cache]_vars

\* Checksum("A.ESP", crc of Blank.bsa) answered false from the CRC that
\* Checksum("a.esp", crc of Blank.esm) stored, while "A.ESP" names no file.
C24_Witness ==
    /\ last.fn = Checksum(NameAEspUpper, crc32("Blank.bsa"))
    /\ last.crc_hit
    /\ ~last.file_read
    /\ last.result = Ok(FALSE)
    /\ crc_cache = insert(EmptyMap, NameAEsp, crc32("Blank.esm"))
    /\ ~exists(resolve_path(NameAEspUpper))

-----------------------------------------------------------------------------
(* Readable (checked under SpecReadable) *)

\* The resolved path can be opened for reading: a regular file that may be
\* read, or a directory that can be listed.
CanBeRead(path) == node(path).kind \in {"file", "dir"} /\ node(path).readable

\* C26 as stated: Readable is true exactly when the resolved path can be
\* opened for reading, a directory counting as readable exactly when it can
\* be listed, wherever the working directory is.
C26_ReadableIffResolvedCanBeRead ==
    last.fn.kind = "Readable" =>
        last.result = Ok(CanBeRead(resolve_path(last.fn.path)))

-----------------------------------------------------------------------------
(* Calls that fail (checked under SpecFailures) *)

\* C27: a call that returns an error leaves both caches, maps and poison
\* flags, as they were and takes no write lock; and when the next call is of
\* the same function it finds no stored result and no stored CRC: it runs
\* the match again, a Checksum giving what the file gives now.
C27_FailuresNotMemoized ==
    [][/\ (IsCall /\ ~last'.result.ok)
              => /\ crc_cache' = crc_cache
                 /\ crc_poisoned' = crc_poisoned
                 /\ condition_cache' = condition_cache
                 /\ condition_poisoned' = condition_poisoned
                 /\ ~last'.cache_wrote
                 /\ ~last'.crc_wrote
       /\ (IsCall /\ last.fn.kind # "None" /\ ~last.result.ok /\ last'.fn = last.fn)
              => /\ last'.computed
                 /\ ~last'.cache_hit
                 /\ ~last'.crc_hit
                 /\ last'.fn.kind = "Checksum" => last'.result = ChecksumFromFile(last'.fn)]_vars

\* The reader's error for a file that is not an executable, returned with
\* the result of an earlier FileRegex stored and no result stored for the
\* Version.
C27_Witness ==
    /\ last.fn.kind = "Version"
    /\ last.result = Err(PeParsingError(Join(data_path, NameLootDll)))
    /\ last.computed
    /\ ~last.cache_wrote
    /\ DOMAIN condition_cache = {FileRegex(DirData, {NameAEsp})}

-----------------------------------------------------------------------------
(* The locks (checked under SpecThreadsFair) *)

\* The cache whose lock the thread is about to request, and the kind of the
\* request.
Requests(t, cache, kind) == threads[t].pc = cache \o "." \o kind

\* The thread's request cannot be granted now.
Blocked(t) ==
    \E cache \in {"crc_cache", "condition_cache"} :
        \/ Requests(t, cache, "read") /\ ~read_ready(cache)
        \/ Requests(t, cache, "write") /\ ~write_ready(cache)

Inside(t) == threads[t].pc \notin {"idle", "returned"}

\* No thread requests the write lock of a cache of which it holds the read
\* guard, and no thread requests a lock while it holds a guard of the other
\* cache; a thread that is blocked waits for a thread that holds a guard and
\* is not blocked itself, so that the threads are never all blocked.
LockDiscipline ==
    /\ \A t \in Threads :
           \A cache \in {"crc_cache", "condition_cache"} :
               /\ Requests(t, cache, "write") => ReadGuard(cache) \notin threads[t].guards
               /\ Requests(t, cache, "read") \/ Requests(t, cache, "write")
                      => \A g \in threads[t].guards : g[1] = cache
    /\ \A t \in Threads :
           Blocked(t) => \E u \in Threads : threads[u].guards # {} /\ ~Blocked(u)
    /\ ~(\A t \in Threads : Blocked(t))

\* C28: the lock discipline holds in every state, and every call that has
\* been made returns.
C28_NoDeadlock ==
    /\ []LockDiscipline
    /\ \A t \in Threads : Inside(t) ~> (threads[t].pc = "returned")

\* A thread waits for the write lock of the condition cache while another
\* holds its read guard.
C28_Witness ==
    \E t, u \in Threads :
        /\ Requests(t, "condition_cache", "write")
        /\ Blocked(t)
        /\ ReadGuard("condition_cache") \in threads[u].guards

-----------------------------------------------------------------------------
(* The caches and the results (checked under SpecStable) *)

\* What the function gives on a context whose caches are empty: the result
\* of the match, which for a Checksum is worked out from the file.
FromEmptyCaches(f) ==
    IF f.kind = "Checksum" THEN ChecksumFromFile(f) ELSE match_self(f).result

\* C29 as stated: with the filesystem and the context unchanged and no lock
\* poisoned, every call returns what the same call returns on empty caches.
C29_CacheTransparency ==
    last.fn.kind # "None" => last.result = FromEmptyCaches(last.fn)

------------------------------------------------------------------------------
(* The override map and paths that are not regular files (checked under    *)
(* SpecVersionEval)                                                         *)

\* C30: a Version predicate whose resolved path is missing or is a
\* directory follows the absent-version policy of its comparator even when
\* the override map has an entry for the file name, and get_version gives no
\* version for such a path; a version taken from the override map is the
\* version of a regular file.
C30_OverrideNeedsRegularFile ==
    /\ (last.fn.kind = "Version" /\ ~is_file(Resolved)) =>
           last.result = Ok(AbsentPolicy(last.fn.comparator))
    /\ (IsGetVersion /\ ~is_file(last.file_path)) => last.result = Ok(None)
    /\ (IsGetVersion /\ last.result.ok /\ last.result.val.some /\ ~last.reader) =>
           /\ is_file(last.file_path)
           /\ Overridden(last.file_path)

\* A directory whose name has an override of "1", asked whether its version
\* equals "1": it does not.
C30_Witness ==
    /\ last.fn.kind = "Version"
    /\ last.computed
    /\ node(Resolved) = Directory
    /\ Overridden(Resolved)
    /\ plugin_versions[to_lowercase(Resolved[2])] = <<49>>
    /\ last.fn.comparator = "Equal"
    /\ last.fn.version = <<49>>
    /\ last.result = Ok(FALSE)

\* The same predicate on a missing path with an override.
C30_WitnessMissing ==
    /\ last.fn.kind = "Version"
    /\ node(Resolved) = Missing
    /\ Overridden(Resolved)
    /\ last.fn.comparator = "LessThan"
    /\ last.result = Ok(TRUE)

====
